---- MODULE Spec2Model ----
(***************************************************************************)
(* A model of the red-black tree of rbtree.go (package rbtree).            *)
(*                                                                         *)
(* The heap of *node values is the five functions item, parent, left,      *)
(* right and color over the addresses Addr; the address nil (0) is Go's    *)
(* nil pointer.  The fields of Tree are the variables root, minNode,       *)
(* maxNode and count.  Every method of the source is an operator over a    *)
(* record T that bundles these fields, written statement by statement      *)
(* after the Go code; each public method is one action.                    *)
(*                                                                         *)
(* Items are the (key, value) structs of ExampleIntString and the          *)
(* comparator is the one of that example: the difference of the keys.      *)
(***************************************************************************)
EXTENDS Integers, Sequences, FiniteSets

\* ----------------------------------------------------------------- bounds
\* keys are drawn from 1..MaxKey
MaxKey == 7
\* in SpecCount: at most MaxIns calls of Insert return true, and at most
\* MaxDel deletions are done
MaxIns == 8
MaxDel == 4
\* in SpecKeep: keys are drawn from 1..MaxKeptKey
MaxKeptKey == 6
\* in SpecThreads, in a program that uses the mutex: keys are drawn from
\* 1..MaxThreadKey
MaxThreadKey == 4
\* in SpecThreads, in a program that uses no mutex: keys are drawn from
\* 1..MaxRaceKey, and the goroutines start on a tree of MaxRaceFill items at
\* most
MaxRaceKey == 3
MaxRaceFill == 2

Keys == 1..MaxKey
\* the value part of an item (MyItem.value); 0 is the value of a probe key
Vals == {1, 2}

nil == 0
\* one address per key and one spare for the node Insert allocates
\* for an item whose key is already stored
Addr == 1..(MaxKey + 1)

red == 0
black == 1

MkItem(k, v) == [key |-> k, val |-> v]
\* the zero value of a node's item field (a nil interface)
NoItem == MkItem(0, 0)
Items == {MkItem(k, v) : k \in Keys, v \in Vals}
\* a probe: MyItem{key, ""}
Probe(k) == MkItem(k, 0)

VARIABLES
    root, minNode, maxNode, count,      \* Tree
    item, parent, left, right, color,   \* node, per address
    last,                               \* the last call and what it returned
    nIns, nDel,                         \* calls of Insert that returned true; deletions
    oracle,                             \* the sorted array of the test's oracle
    iter,                               \* the iterator a program keeps across calls
    thread,                             \* per goroutine: where it is in its call, its locals
    lock                                \* the mutex a program puts around its calls

vars == <<root, minNode, maxNode, count, item, parent, left, right, color,
          last, nIns, nDel, oracle, iter, thread, lock>>

\* the tree and its nodes as one value
T == [root |-> root, minNode |-> minNode, maxNode |-> maxNode, count |-> count,
      item |-> item, parent |-> parent, left |-> left, right |-> right,
      color |-> color]

\* NewTree: every field zero, no node allocated
NewTree == [root |-> nil, minNode |-> nil, maxNode |-> nil, count |-> 0,
            item |-> [a \in Addr |-> NoItem], parent |-> [a \in Addr |-> nil],
            left |-> [a \in Addr |-> nil], right |-> [a \in Addr |-> nil],
            color |-> [a \in Addr |-> red]]

\* the comparator of ExampleIntString and testNewIntSet
compare(a, b) == a.key - b.key

\* doAssert(b) returns when b holds and panics otherwise
doAssert(b) == b

\* ------------------------------------------------------ node accessors
getColor(t, n) == IF n = nil THEN black ELSE t.color[n]

isLeftChild(t, n) == n = t.left[t.parent[n]]

isRightChild(t, n) == n = t.right[t.parent[n]]

sibling(t, n) ==
    IF isLeftChild(t, n) THEN t.right[t.parent[n]] ELSE t.left[t.parent[n]]

RECURSIVE leftmost(_, _)
leftmost(t, m) == IF t.left[m] # nil THEN leftmost(t, t.left[m]) ELSE m

RECURSIVE rightmost(_, _)
rightmost(t, m) == IF t.right[m] # nil THEN rightmost(t, t.right[m]) ELSE m

RECURSIVE nextClimb(_, _)
nextClimb(t, n) ==
    IF n = nil THEN nil
    ELSE LET p == t.parent[n]
         IN  IF p = nil THEN nil
             ELSE IF isLeftChild(t, n) THEN p
             ELSE nextClimb(t, p)

\* next without the climb to the parents
next_noClimb(t, n) ==
    IF t.right[n] # nil THEN leftmost(t, t.right[n]) ELSE nil

next(t, n) ==
    IF t.right[n] # nil THEN leftmost(t, t.right[n]) ELSE nextClimb(t, n)

maxPredecessor(t, n) == rightmost(t, t.left[n])

RECURSIVE prevClimb(_, _)
prevClimb(t, n) ==
    IF n = nil THEN nil
    ELSE LET p == t.parent[n]
         IN  IF p = nil THEN nil
             ELSE IF isRightChild(t, n) THEN p
             ELSE prevClimb(t, p)

\* prev without the descent into the left subtree
prev_noDescend(t, n) == prevClimb(t, n)

prev(t, n) ==
    IF t.left[n] # nil THEN maxPredecessor(t, n) ELSE prevClimb(t, n)

\* ------------------------------------------- rotations, link replacement
replaceNode(t, oldn, newn) ==
    LET p == t.parent[oldn]
        slot(u) == IF p = nil THEN [u EXCEPT !.root = newn]
                   ELSE IF oldn = u.left[p] THEN [u EXCEPT !.left[p] = newn]
                   ELSE [u EXCEPT !.right[p] = newn]
        back(u) == IF newn # nil THEN [u EXCEPT !.parent[newn] = p] ELSE u
    IN  back(slot(t))

\* rotateLeft that leaves the parent link of y.left as it was
rotateLeft_parentKept(t, x) ==
    LET y == t.right[x]
        moveB(u) == [u EXCEPT !.right[x] = u.left[y]]
        up(u) == [u EXCEPT !.parent[y] = u.parent[x]]
        link(u) == IF u.parent[x] = nil THEN [u EXCEPT !.root = y]
                   ELSE IF isLeftChild(u, x) THEN [u EXCEPT !.left[u.parent[x]] = y]
                   ELSE [u EXCEPT !.right[u.parent[x]] = y]
        down(u) == [u EXCEPT !.left[y] = x, !.parent[x] = y]
    IN  down(link(up(moveB(t))))

rotateLeft(t, x) ==
    LET y == t.right[x]
        \* x.right = y.left, and y.left's parent
        moveB(u) == [u EXCEPT !.right[x] = u.left[y]]
        parentB(u) == IF u.left[y] # nil THEN [u EXCEPT !.parent[u.left[y]] = x] ELSE u
        \* y takes x's place below x's parent
        up(u) == [u EXCEPT !.parent[y] = u.parent[x]]
        link(u) == IF u.parent[x] = nil THEN [u EXCEPT !.root = y]
                   ELSE IF isLeftChild(u, x) THEN [u EXCEPT !.left[u.parent[x]] = y]
                   ELSE [u EXCEPT !.right[u.parent[x]] = y]
        down(u) == [u EXCEPT !.left[y] = x, !.parent[x] = y]
    IN  down(link(up(parentB(moveB(t)))))

rotateRight(t, y) ==
    LET x == t.left[y]
        \* y.left = x.right, and x.right's parent
        moveB(u) == [u EXCEPT !.left[y] = u.right[x]]
        parentB(u) == IF u.right[x] # nil THEN [u EXCEPT !.parent[u.right[x]] = y] ELSE u
        \* x takes y's place below y's parent
        up(u) == [u EXCEPT !.parent[x] = u.parent[y]]
        link(u) == IF u.parent[y] = nil THEN [u EXCEPT !.root = x]
                   ELSE IF isLeftChild(u, y) THEN [u EXCEPT !.left[u.parent[y]] = x]
                   ELSE [u EXCEPT !.right[u.parent[y]] = x]
        down(u) == [u EXCEPT !.right[x] = y, !.parent[y] = x]
    IN  down(link(up(parentB(moveB(t)))))

\* --------------------------------------------------------------- search
RECURSIVE findGEFrom(_, _, _)
findGEFrom(t, key, n) ==
    IF n = nil THEN [node |-> nil, exact |-> FALSE]
    ELSE LET comp == compare(key, t.item[n])
         IN  IF comp = 0 THEN [node |-> n, exact |-> TRUE]
             ELSE IF comp < 0
                  THEN IF t.left[n] # nil THEN findGEFrom(t, key, t.left[n])
                       ELSE [node |-> n, exact |-> FALSE]
             ELSE IF t.right[n] # nil THEN findGEFrom(t, key, t.right[n])
             ELSE LET succ == next(t, n)
                  IN  IF succ = nil THEN [node |-> nil, exact |-> FALSE]
                      ELSE [node |-> succ,
                            exact |-> (compare(key, t.item[succ]) = 0)]

findGE(t, key) == findGEFrom(t, key, t.root)

\* Get that trusts the node and ignores exact
Get_ignoreExact(t, key) ==
    LET r == findGE(t, key)
    IN  IF r.node # nil THEN t.item[r.node] ELSE NoItem

\* Tree.Get: the item, or NoItem for Go's nil
Get(t, key) ==
    LET r == findGE(t, key)
    IN  IF r.exact THEN t.item[r.node] ELSE NoItem

\* Tree.FindGE, FindLE, Begin, End: the node of the iterator returned
FindGE(t, key) == findGE(t, key).node

\* FindLE that stays at the node of findGE when the match is not exact
FindLE_noPrev(t, key) ==
    LET r == findGE(t, key)
    IN  IF r.node # nil THEN r.node
        ELSE IF t.root = nil THEN nil
        ELSE rightmost(t, t.root)

FindLE(t, key) ==
    LET r == findGE(t, key)
    IN  IF r.exact THEN r.node
        ELSE IF r.node # nil THEN prev(t, r.node)
        ELSE IF t.root = nil THEN nil
        ELSE rightmost(t, t.root)

Begin(t) == t.minNode

End(t) == nil

TreeLen(t) == t.count

\* ------------------------------------------------------------- iterator
\* an Iterator{tree, n} is its node n
IteratorEnd(n) == n = nil

IteratorBegin(t, n) == n = t.minNode

\* REQUIRES: n # nil
IteratorItem(t, n) == t.item[n]

\* REQUIRES: n # nil
IteratorNext(t, n) == next(t, n)

\* Prev that goes from End to the cached minimum
IteratorPrev_toMin(t, n) == IF IteratorEnd(n) THEN t.minNode ELSE prev(t, n)

\* REQUIRES: ~IteratorBegin(t, n)
IteratorPrev(t, n) == IF IteratorEnd(n) THEN t.maxNode ELSE prev(t, n)

\* -------------------------------------------------------------- insert
maybeSetMinNode(t, n) ==
    IF t.minNode = nil THEN [t EXCEPT !.minNode = n, !.maxNode = n]
    ELSE IF compare(t.item[n], t.item[t.minNode]) < 0 THEN [t EXCEPT !.minNode = n]
    ELSE t

maybeSetMaxNode(t, n) ==
    IF t.maxNode = nil THEN [t EXCEPT !.minNode = n, !.maxNode = n]
    ELSE IF compare(t.item[n], t.item[t.maxNode]) > 0 THEN [t EXCEPT !.maxNode = n]
    ELSE t

\* the loop of doInsert with the sides exchanged
RECURSIVE doInsertFrom_sidesSwapped(_, _, _)
doInsertFrom_sidesSwapped(t, n, p) ==
    LET comp == compare(t.item[n], t.item[p])
    IN  IF comp = 0 THEN [t |-> t, ok |-> FALSE]
        ELSE IF comp > 0
             THEN IF t.left[p] = nil
                  THEN [t |-> maybeSetMinNode(
                                [t EXCEPT !.parent[n] = p, !.left[p] = n,
                                          !.count = @ + 1], n),
                        ok |-> TRUE]
                  ELSE doInsertFrom_sidesSwapped(t, n, t.left[p])
        ELSE IF t.right[p] = nil
             THEN [t |-> maybeSetMaxNode(
                           [t EXCEPT !.parent[n] = p, !.right[p] = n,
                                     !.count = @ + 1], n),
                   ok |-> TRUE]
             ELSE doInsertFrom_sidesSwapped(t, n, t.right[p])

\* the loop of doInsert; ok is doInsert's result
RECURSIVE doInsertFrom(_, _, _)
doInsertFrom(t, n, p) ==
    LET comp == compare(t.item[n], t.item[p])
    IN  IF comp = 0 THEN [t |-> t, ok |-> FALSE]
        ELSE IF comp < 0
             THEN IF t.left[p] = nil
                  THEN [t |-> maybeSetMinNode(
                                [t EXCEPT !.parent[n] = p, !.left[p] = n,
                                          !.count = @ + 1], n),
                        ok |-> TRUE]
                  ELSE doInsertFrom(t, n, t.left[p])
        ELSE IF t.right[p] = nil
             THEN [t |-> maybeSetMaxNode(
                           [t EXCEPT !.parent[n] = p, !.right[p] = n,
                                     !.count = @ + 1], n),
                   ok |-> TRUE]
             ELSE doInsertFrom(t, n, t.right[p])

\* doInsert that does not count the first node
doInsert_rootNotCounted(t, n) ==
    IF t.root = nil
    THEN [t |-> [t EXCEPT !.parent[n] = nil, !.root = n, !.minNode = n,
                          !.maxNode = n],
          ok |-> TRUE]
    ELSE doInsertFrom(t, n, t.root)

doInsert(t, n) ==
    IF t.root = nil
    THEN [t |-> [t EXCEPT !.parent[n] = nil, !.root = n, !.minNode = n,
                          !.maxNode = n, !.count = @ + 1],
          ok |-> TRUE]
    ELSE doInsertFrom(t, n, t.root)

\* the loop of Insert with case 1 alone: no recoloring above n, no rotation
insertFixup_rootOnly(t, n) ==
    IF t.parent[n] = nil THEN [t EXCEPT !.color[n] = black] ELSE t

\* the loop of Insert that restores the colors, from node n up
RECURSIVE insertFixup(_, _)
insertFixup(t, n) ==
    IF t.parent[n] = nil THEN [t EXCEPT !.color[n] = black]
    ELSE IF t.color[t.parent[n]] = black THEN t
    ELSE
      LET p == t.parent[n]
          grandparent == t.parent[p]
          uncle == IF isLeftChild(t, p) THEN t.right[grandparent]
                   ELSE t.left[grandparent]
          \* after rotateLeft(n.parent): n = n.left; after rotateRight: n = n.right
          fromLeft(u) == insertFixup(u, u.left[n])
          fromRight(u) == insertFixup(u, u.right[n])
          \* case 5, after the two colors are set
          rotateGrandparent(u) == IF isLeftChild(u, n) THEN rotateRight(u, grandparent)
                                  ELSE rotateLeft(u, grandparent)
      IN  IF uncle # nil /\ t.color[uncle] = red
          THEN insertFixup([t EXCEPT !.color[p] = black, !.color[uncle] = black,
                                     !.color[grandparent] = red], grandparent)
          ELSE IF isRightChild(t, n) /\ isLeftChild(t, p)
          THEN fromLeft(rotateLeft(t, p))
          ELSE IF isLeftChild(t, n) /\ isRightChild(t, p)
          THEN fromRight(rotateRight(t, p))
          ELSE rotateGrandparent([t EXCEPT !.color[p] = black,
                                           !.color[grandparent] = red])

\* new(node): the address of the item's key when no node lives there, else the
\* spare address.  Addresses are visible to a Go program through pointer
\* equality only, so which free address the allocator hands out is immaterial.
newNode(t, it) ==
    IF t.item[it.key] = NoItem THEN it.key
    ELSE CHOOSE a \in Addr : t.item[a] = NoItem /\ \A b \in Addr : t.item[b] = NoItem => a <= b

\* a node no pointer refers to any more is collected: its address is free again
collect(t, n) ==
    [t EXCEPT !.item[n] = NoItem, !.parent[n] = nil, !.left[n] = nil,
              !.right[n] = nil, !.color[n] = red]

\* Insert that puts the new item in the place of an equal stored one
Insert_replaces(t, it) ==
    LET n == newNode(t, it)
        finish(r) ==
            IF ~r.ok
            THEN [t |-> collect([r.t EXCEPT !.item[findGE(r.t, it).node] = it], n),
                  ok |-> FALSE]
            ELSE [t |-> insertFixup([r.t EXCEPT !.color[n] = red], n), ok |-> TRUE]
    IN  finish(doInsert([t EXCEPT !.item[n] = it, !.color[n] = red], n))

\* Insert without the loop that restores the colors
Insert_noFixup(t, it) ==
    LET n == newNode(t, it)
        finish(r) ==
            IF ~r.ok THEN [t |-> collect(r.t, n), ok |-> FALSE]
            ELSE [t |-> [r.t EXCEPT !.color[n] = red], ok |-> TRUE]
    IN  finish(doInsert([t EXCEPT !.item[n] = it, !.color[n] = red], n))

\* Tree.Insert; ok is its result
Insert(t, it) ==
    LET n == newNode(t, it)
        finish(r) ==
            IF ~r.ok THEN [t |-> collect(r.t, n), ok |-> FALSE]
            ELSE [t |-> insertFixup([r.t EXCEPT !.color[n] = red], n), ok |-> TRUE]
    IN  finish(doInsert([t EXCEPT !.item[n] = it, !.color[n] = red], n))

\* -------------------------------------------------------------- delete
\* the end of deleteCase1's else branch: cases 5 and 6
deleteCase5(t, n) ==
    LET case5(u) ==
            IF /\ n = u.left[u.parent[n]]
               /\ getColor(u, sibling(u, n)) = black
               /\ getColor(u, u.left[sibling(u, n)]) = red
               /\ getColor(u, u.right[sibling(u, n)]) = black
            THEN rotateRight([u EXCEPT !.color[sibling(u, n)] = red,
                                       !.color[u.left[sibling(u, n)]] = black],
                             sibling(u, n))
            ELSE IF /\ n = u.right[u.parent[n]]
                    /\ getColor(u, sibling(u, n)) = black
                    /\ getColor(u, u.right[sibling(u, n)]) = red
                    /\ getColor(u, u.left[sibling(u, n)]) = black
            THEN rotateLeft([u EXCEPT !.color[sibling(u, n)] = red,
                                      !.color[u.right[sibling(u, n)]] = black],
                            sibling(u, n))
            ELSE u
        \* case 6
        siblingColor(u) == [u EXCEPT !.color[sibling(u, n)] = getColor(u, u.parent[n])]
        parentBlack(u) == [u EXCEPT !.color[u.parent[n]] = black]
        case6(u) ==
            IF n = u.left[u.parent[n]]
            THEN rotateLeft([u EXCEPT !.color[u.right[sibling(u, n)]] = black],
                            u.parent[n])
            ELSE rotateRight([u EXCEPT !.color[u.left[sibling(u, n)]] = black],
                             u.parent[n])
    IN  case6(parentBlack(siblingColor(case5(t))))

RECURSIVE deleteCase1(_, _)
deleteCase1(t, n) ==
    IF t.parent[n] = nil THEN t
    ELSE
      LET parentRed(u) == [u EXCEPT !.color[u.parent[n]] = red]
          siblingBlack(u) == [u EXCEPT !.color[sibling(u, n)] = black]
          rotateParent(u) == IF n = u.left[u.parent[n]] THEN rotateLeft(u, u.parent[n])
                             ELSE rotateRight(u, u.parent[n])
          redSibling(u) == IF getColor(u, sibling(u, n)) = red
                           THEN rotateParent(siblingBlack(parentRed(u)))
                           ELSE u
          rest(u) ==
              IF /\ getColor(u, u.parent[n]) = black
                 /\ getColor(u, sibling(u, n)) = black
                 /\ getColor(u, u.left[sibling(u, n)]) = black
                 /\ getColor(u, u.right[sibling(u, n)]) = black
              THEN deleteCase1([u EXCEPT !.color[sibling(u, n)] = red], u.parent[n])
              ELSE IF /\ getColor(u, u.parent[n]) = red
                      /\ getColor(u, sibling(u, n)) = black
                      /\ getColor(u, u.left[sibling(u, n)]) = black
                      /\ getColor(u, u.right[sibling(u, n)]) = black
              THEN [u EXCEPT !.color[sibling(u, n)] = red, !.color[u.parent[n]] = black]
              ELSE deleteCase5(u, n)
      IN  rest(redSibling(t))

\* the two-children branch of doDelete in which the items trade places too:
\* pred takes the item of n
splice_itemsSwapped(t, n) ==
    LET pred   == maxPredecessor(t, n)
        isLeft == isLeftChild(t, pred)
        \* tmp := *pred
        tmp    == [item |-> t.item[pred], parent |-> t.parent[pred],
                   left |-> t.left[pred], right |-> t.right[pred],
                   color |-> t.color[pred]]
        predColor(u) == [u EXCEPT !.color[pred] = u.color[n]]
        \* pred.left = n.left, pred.right = n.right, each with its parent link
        predLeft(u) == [u EXCEPT !.left[pred] = u.left[n]]
        predLeftParent(u) ==
            IF u.left[pred] # nil THEN [u EXCEPT !.parent[u.left[pred]] = pred] ELSE u
        predRight(u) == [u EXCEPT !.right[pred] = u.right[n]]
        predRightParent(u) ==
            IF u.right[pred] # nil THEN [u EXCEPT !.parent[u.right[pred]] = pred] ELSE u
        \* n takes the fields tmp holds, below parent np
        nFields(u, np) == [u EXCEPT !.item[pred] = u.item[n],
                                    !.item[n] = tmp.item, !.parent[n] = np,
                                    !.left[n] = tmp.left]
        nLeftParent(u) ==
            IF u.left[n] # nil THEN [u EXCEPT !.parent[u.left[n]] = n] ELSE u
        nRight(u) == [u EXCEPT !.right[n] = tmp.right]
        nRightParent(u) ==
            IF u.right[n] # nil THEN [u EXCEPT !.parent[u.right[n]] = n] ELSE u
        down(u, np) == nRightParent(nRight(nLeftParent(nFields(u, np))))
        \* swap the positions of n and pred
        adjacent(u) ==
            IF isLeft
            THEN down(predRightParent(predRight([u EXCEPT !.left[pred] = n])), pred)
            ELSE down([predLeftParent(predLeft(u)) EXCEPT !.right[pred] = n], pred)
        slot(u) == IF isLeft THEN [u EXCEPT !.left[tmp.parent] = n]
                   ELSE [u EXCEPT !.right[tmp.parent] = n]
        apart(u) ==
            down(slot(predRightParent(predRight(predLeftParent(predLeft(u))))),
                 tmp.parent)
        places(u) == IF tmp.parent = n THEN adjacent(u) ELSE apart(u)
        nColor(u) == [u EXCEPT !.color[n] = tmp.color]
    IN  nColor(places(predColor(replaceNode(t, n, pred))))

\* the two-children branch of doDelete that leaves the parent link of n's new
\* left child as it was
splice_leftParentKept(t, n) ==
    LET pred   == maxPredecessor(t, n)
        isLeft == isLeftChild(t, pred)
        \* tmp := *pred
        tmp    == [item |-> t.item[pred], parent |-> t.parent[pred],
                   left |-> t.left[pred], right |-> t.right[pred],
                   color |-> t.color[pred]]
        predColor(u) == [u EXCEPT !.color[pred] = u.color[n]]
        \* pred.left = n.left, pred.right = n.right, each with its parent link
        predLeft(u) == [u EXCEPT !.left[pred] = u.left[n]]
        predLeftParent(u) ==
            IF u.left[pred] # nil THEN [u EXCEPT !.parent[u.left[pred]] = pred] ELSE u
        predRight(u) == [u EXCEPT !.right[pred] = u.right[n]]
        predRightParent(u) ==
            IF u.right[pred] # nil THEN [u EXCEPT !.parent[u.right[pred]] = pred] ELSE u
        \* n takes the fields tmp holds, below parent np
        nFields(u, np) == [u EXCEPT !.item[n] = tmp.item, !.parent[n] = np,
                                    !.left[n] = tmp.left]
        nLeftParent(u) == u
        nRight(u) == [u EXCEPT !.right[n] = tmp.right]
        nRightParent(u) ==
            IF u.right[n] # nil THEN [u EXCEPT !.parent[u.right[n]] = n] ELSE u
        down(u, np) == nRightParent(nRight(nLeftParent(nFields(u, np))))
        \* swap the positions of n and pred
        adjacent(u) ==
            IF isLeft
            THEN down(predRightParent(predRight([u EXCEPT !.left[pred] = n])), pred)
            ELSE down([predLeftParent(predLeft(u)) EXCEPT !.right[pred] = n], pred)
        slot(u) == IF isLeft THEN [u EXCEPT !.left[tmp.parent] = n]
                   ELSE [u EXCEPT !.right[tmp.parent] = n]
        apart(u) ==
            down(slot(predRightParent(predRight(predLeftParent(predLeft(u))))),
                 tmp.parent)
        places(u) == IF tmp.parent = n THEN adjacent(u) ELSE apart(u)
        nColor(u) == [u EXCEPT !.color[n] = tmp.color]
    IN  nColor(places(predColor(replaceNode(t, n, pred))))

\* the two-children branch of doDelete: n and its predecessor trade places
splice(t, n) ==
    LET pred   == maxPredecessor(t, n)
        isLeft == isLeftChild(t, pred)
        \* tmp := *pred
        tmp    == [item |-> t.item[pred], parent |-> t.parent[pred],
                   left |-> t.left[pred], right |-> t.right[pred],
                   color |-> t.color[pred]]
        predColor(u) == [u EXCEPT !.color[pred] = u.color[n]]
        \* pred.left = n.left, pred.right = n.right, each with its parent link
        predLeft(u) == [u EXCEPT !.left[pred] = u.left[n]]
        predLeftParent(u) ==
            IF u.left[pred] # nil THEN [u EXCEPT !.parent[u.left[pred]] = pred] ELSE u
        predRight(u) == [u EXCEPT !.right[pred] = u.right[n]]
        predRightParent(u) ==
            IF u.right[pred] # nil THEN [u EXCEPT !.parent[u.right[pred]] = pred] ELSE u
        \* n takes the fields tmp holds, below parent np
        nFields(u, np) == [u EXCEPT !.item[n] = tmp.item, !.parent[n] = np,
                                    !.left[n] = tmp.left]
        nLeftParent(u) ==
            IF u.left[n] # nil THEN [u EXCEPT !.parent[u.left[n]] = n] ELSE u
        nRight(u) == [u EXCEPT !.right[n] = tmp.right]
        nRightParent(u) ==
            IF u.right[n] # nil THEN [u EXCEPT !.parent[u.right[n]] = n] ELSE u
        down(u, np) == nRightParent(nRight(nLeftParent(nFields(u, np))))
        \* swap the positions of n and pred
        adjacent(u) ==
            IF isLeft
            THEN down(predRightParent(predRight([u EXCEPT !.left[pred] = n])), pred)
            ELSE down([predLeftParent(predLeft(u)) EXCEPT !.right[pred] = n], pred)
        slot(u) == IF isLeft THEN [u EXCEPT !.left[tmp.parent] = n]
                   ELSE [u EXCEPT !.right[tmp.parent] = n]
        apart(u) ==
            down(slot(predRightParent(predRight(predLeftParent(predLeft(u))))),
                 tmp.parent)
        places(u) == IF tmp.parent = n THEN adjacent(u) ELSE apart(u)
        nColor(u) == [u EXCEPT !.color[n] = tmp.color]
    IN  nColor(places(predColor(replaceNode(t, n, pred))))

\* the end of doDelete that finds the minimum again and forgets the maximum
recache_minOnly(t) ==
    LET findMin(u) ==
            IF u.minNode = nil
            THEN [u EXCEPT !.minNode = IF u.root # nil THEN leftmost(u, u.root) ELSE nil]
            ELSE u
    IN  IF t.count > 0 THEN findMin(t) ELSE t

\* the end of doDelete: a cache entry that was dropped is found again from root
recache(t) ==
    LET findMin(u) ==
            IF u.minNode = nil
            THEN [u EXCEPT !.minNode = IF u.root # nil THEN leftmost(u, u.root) ELSE nil]
            ELSE u
        findMax(u) ==
            IF u.maxNode = nil
            THEN [u EXCEPT !.maxNode = IF u.root # nil THEN rightmost(u, u.root) ELSE nil]
            ELSE u
    IN  IF t.count > 0 THEN findMax(findMin(t)) ELSE t

\* doDelete that unlinks a black node without deleteCase1
doDelete_noFixup(t, n) ==
    LET dropMin(u) == IF u.minNode = n THEN [u EXCEPT !.minNode = nil] ELSE u
        dropMax(u) == IF u.maxNode = n THEN [u EXCEPT !.maxNode = nil] ELSE u
        decrement(u) == [u EXCEPT !.count = @ - 1]
        twoChildren(u) ==
            IF u.left[n] # nil /\ u.right[n] # nil THEN splice(u, n) ELSE u
        unlink(u) ==
            LET child == IF u.right[n] = nil THEN u.left[n] ELSE u.right[n]
                rootBlack(v) ==
                    IF v.parent[n] = nil /\ child # nil
                    THEN [v EXCEPT !.color[child] = black] ELSE v
            IN  rootBlack(replaceNode(u, n, child))
    IN  recache(unlink(twoChildren(decrement(dropMax(dropMin(t))))))

doDelete(t, n) ==
    LET dropMin(u) == IF u.minNode = n THEN [u EXCEPT !.minNode = nil] ELSE u
        dropMax(u) == IF u.maxNode = n THEN [u EXCEPT !.maxNode = nil] ELSE u
        decrement(u) == [u EXCEPT !.count = @ - 1]
        twoChildren(u) ==
            IF u.left[n] # nil /\ u.right[n] # nil THEN splice(u, n) ELSE u
        \* n has one child at most from here on
        unlink(u) ==
            LET child == IF u.right[n] = nil THEN u.left[n] ELSE u.right[n]
                fixup(v) ==
                    IF v.color[n] = black
                    THEN deleteCase1([v EXCEPT !.color[n] = getColor(v, child)], n)
                    ELSE v
                rootBlack(v) ==
                    IF v.parent[n] = nil /\ child # nil
                    THEN [v EXCEPT !.color[child] = black] ELSE v
            IN  rootBlack(replaceNode(fixup(u), n, child))
    IN  recache(unlink(twoChildren(decrement(dropMax(dropMin(t))))))

\* Tree.DeleteWithIterator for an iterator at node n # nil; the node is
\* unlinked and nothing refers to it afterwards
DeleteWithIterator(t, n) == collect(doDelete(t, n), n)

\* Tree.DeleteWithKey; ok is its result
DeleteWithKey(t, key) ==
    LET n == FindGE(t, key)
    IN  IF n # nil THEN [t |-> DeleteWithIterator(t, n), ok |-> TRUE]
        ELSE [t |-> t, ok |-> FALSE]

\* ------------------- the assertions and dereferences of Insert and doDelete
\* one place on the path of a call where the code asserts, or reads a field
\* through a pointer: its name, and whether it goes well (the assertion holds,
\* the pointer is not nil)
Check(name, well) == {[check |-> name, well |-> well]}

\* rotateLeft(x) reads y.left with y := x.right; rotateRight(y) reads x.right
\* with x := y.left
rotateLeftChecks(t, x) == Check("pivot", t.right[x] # nil)

rotateRightChecks(t, y) == Check("pivot", t.left[y] # nil)

\* the checks of the loop of Insert from node n up, to the first that fails
RECURSIVE insertFixupChecks(_, _)
insertFixupChecks(t, n) ==
    IF t.parent[n] = nil THEN {}
    ELSE IF t.color[t.parent[n]] = black THEN {}
    ELSE
      LET p == t.parent[n]
          grandparent == t.parent[p]
          uncle == IF isLeftChild(t, p) THEN t.right[grandparent]
                   ELSE t.left[grandparent]
          \* n = n.left and n = n.right: the next round reads n.parent
          fromLeft(u) == IF u.left[n] = nil THEN Check("n", FALSE)
                         ELSE Check("n", TRUE) \cup insertFixupChecks(u, u.left[n])
          fromRight(u) == IF u.right[n] = nil THEN Check("n", FALSE)
                          ELSE Check("n", TRUE) \cup insertFixupChecks(u, u.right[n])
      IN  \* n.parent.isLeftChild() and grandparent.right read grandparent
          IF grandparent = nil THEN Check("grandparent", FALSE)
          ELSE Check("grandparent", TRUE) \cup
               (IF uncle # nil /\ t.color[uncle] = red
                THEN insertFixupChecks(
                         [t EXCEPT !.color[p] = black, !.color[uncle] = black,
                                   !.color[grandparent] = red], grandparent)
                ELSE IF isRightChild(t, n) /\ isLeftChild(t, p)
                THEN rotateLeftChecks(t, p) \cup fromLeft(rotateLeft(t, p))
                ELSE IF isLeftChild(t, n) /\ isRightChild(t, p)
                THEN rotateRightChecks(t, p) \cup fromRight(rotateRight(t, p))
                ELSE IF isLeftChild(t, n) THEN rotateRightChecks(t, grandparent)
                ELSE rotateLeftChecks(t, grandparent))

\* the checks of Insert(it)
InsertChecks(t, it) ==
    LET n == newNode(t, it)
        finish(r) == IF ~r.ok THEN {}
                     ELSE insertFixupChecks([r.t EXCEPT !.color[n] = red], n)
    IN  finish(doInsert([t EXCEPT !.item[n] = it, !.color[n] = red], n))

\* the checks of deleteCase5(n), to the first that fails
deleteCase5Checks(t, n) ==
    LET p == t.parent[n]
        \* the sibling's children are read when the sibling counts as black
        read(u) == getColor(u, sibling(u, n)) = black
        leftCase(u) == /\ n = u.left[p]
                       /\ getColor(u, sibling(u, n)) = black
                       /\ getColor(u, u.left[sibling(u, n)]) = red
                       /\ getColor(u, u.right[sibling(u, n)]) = black
        rightCase(u) == /\ n = u.right[p]
                        /\ getColor(u, sibling(u, n)) = black
                        /\ getColor(u, u.right[sibling(u, n)]) = red
                        /\ getColor(u, u.left[sibling(u, n)]) = black
        \* case 6, in the tree v that case 5 leaves
        farNephew(v) == IF n = v.left[p] THEN v.right[sibling(v, n)]
                        ELSE v.left[sibling(v, n)]
        rotate6(v) == IF n = v.left[p] THEN rotateLeftChecks(v, p)
                      ELSE rotateRightChecks(v, p)
        case6(v) ==
            IF sibling(v, n) = nil THEN Check("sibling", FALSE)
            ELSE Check("sibling", TRUE) \cup
                 (IF getColor(v, farNephew(v)) # red THEN Check("farNephew", FALSE)
                  ELSE Check("farNephew", TRUE) \cup rotate6(v))
        case5(u) ==
            IF leftCase(u)
            THEN rotateRightChecks(u, sibling(u, n)) \cup
                 case6(rotateRight([u EXCEPT !.color[sibling(u, n)] = red,
                                             !.color[u.left[sibling(u, n)]] = black],
                                   sibling(u, n)))
            ELSE IF rightCase(u)
            THEN rotateLeftChecks(u, sibling(u, n)) \cup
                 case6(rotateLeft([u EXCEPT !.color[sibling(u, n)] = red,
                                            !.color[u.right[sibling(u, n)]] = black],
                                  sibling(u, n)))
            ELSE case6(u)
    IN  IF read(t) /\ sibling(t, n) = nil THEN Check("sibling", FALSE)
        ELSE case5(t)

\* the checks of deleteCase1(n), to the first that fails
RECURSIVE deleteCase1Checks(_, _)
deleteCase1Checks(t, n) ==
    IF t.parent[n] = nil THEN {}
    ELSE
      LET p == t.parent[n]
          rotateParentChecks(u) == IF n = u.left[p] THEN rotateLeftChecks(u, p)
                                   ELSE rotateRightChecks(u, p)
          rotateParent(u) == IF n = u.left[p] THEN rotateLeft(u, p)
                             ELSE rotateRight(u, p)
          recolored(u) == [u EXCEPT !.color[p] = red, !.color[sibling(u, n)] = black]
          \* after the red sibling is dealt with
          rest(u) ==
              IF getColor(u, sibling(u, n)) # black THEN deleteCase5Checks(u, n)
              \* n.sibling().left is read
              ELSE IF sibling(u, n) = nil THEN Check("sibling", FALSE)
              ELSE Check("sibling", TRUE) \cup
                   (IF /\ getColor(u, p) = black
                       /\ getColor(u, u.left[sibling(u, n)]) = black
                       /\ getColor(u, u.right[sibling(u, n)]) = black
                    THEN deleteCase1Checks([u EXCEPT !.color[sibling(u, n)] = red], p)
                    ELSE IF /\ getColor(u, p) = red
                            /\ getColor(u, u.left[sibling(u, n)]) = black
                            /\ getColor(u, u.right[sibling(u, n)]) = black
                    THEN {}
                    ELSE deleteCase5Checks(u, n))
      IN  IF getColor(t, sibling(t, n)) = red
          THEN rotateParentChecks(recolored(t)) \cup
               (IF rotateParentChecks(recolored(t)) = Check("pivot", TRUE)
                THEN rest(rotateParent(recolored(t))) ELSE {})
          ELSE rest(t)

\* the checks of DeleteWithIterator(Iterator{tree, n}) and of the doDelete(n)
\* it calls
doDeleteChecks(t, n) ==
    LET two == t.left[n] # nil /\ t.right[n] # nil
        \* doAssert(pred != n)
        predChecks == IF two THEN Check("pred", maxPredecessor(t, n) # n) ELSE {}
        \* doAssert(n.left == nil || n.right == nil), then the fixup
        unlink(u) ==
            LET child == IF u.right[n] = nil THEN u.left[n] ELSE u.right[n]
            IN  IF ~doAssert(u.left[n] = nil \/ u.right[n] = nil)
                THEN Check("oneChild", FALSE)
                ELSE Check("oneChild", TRUE) \cup
                     (IF u.color[n] = black
                      THEN deleteCase1Checks(
                               [u EXCEPT !.color[n] = getColor(u, child)], n)
                      ELSE {})
    IN  IF ~doAssert(~IteratorEnd(n)) THEN Check("iterator", FALSE)
        ELSE Check("iterator", TRUE) \cup predChecks \cup
             unlink(IF two THEN splice(t, n) ELSE t)

\* ------------------------------------------------ the rounds of the loops
\* A loop is followed for Fuel rounds; one that has not ended by then counts
\* Fuel + 1 rounds.
Fuel == 2 * MaxKey + 4

NotFinished == Fuel + 1

\* the rounds of the loop of findGE from node n
RECURSIVE findGERounds(_, _, _, _)
findGERounds(t, key, n, fuel) ==
    IF fuel = 0 \/ n = nil THEN 1
    ELSE LET comp == compare(key, t.item[n])
         IN  IF comp = 0 THEN 1
             ELSE IF comp < 0
                  THEN IF t.left[n] # nil
                       THEN 1 + findGERounds(t, key, t.left[n], fuel - 1)
                       ELSE 1
             ELSE IF t.right[n] # nil
                  THEN 1 + findGERounds(t, key, t.right[n], fuel - 1)
             ELSE 1

\* the rounds of the loop of doInsert for an item it, from node p; none when
\* the tree is empty
RECURSIVE doInsertRounds(_, _, _, _)
doInsertRounds(t, it, p, fuel) ==
    IF p = nil THEN 0
    ELSE IF fuel = 0 THEN 1
    ELSE LET comp == compare(it, t.item[p])
         IN  IF comp = 0 THEN 1
             ELSE IF comp < 0
                  THEN IF t.left[p] = nil THEN 1
                       ELSE 1 + doInsertRounds(t, it, t.left[p], fuel - 1)
             ELSE IF t.right[p] = nil THEN 1
             ELSE 1 + doInsertRounds(t, it, t.right[p], fuel - 1)

\* the climb of next in which n never moves to its parent
RECURSIVE nextClimbRounds_stay(_, _, _)
nextClimbRounds_stay(t, n, fuel) ==
    IF n = nil THEN 0
    ELSE IF fuel = 0 \/ t.parent[n] = nil \/ isLeftChild(t, n) THEN 1
    ELSE 1 + nextClimbRounds_stay(t, n, fuel - 1)

\* the rounds of the second loop of next, the climb from n
RECURSIVE nextClimbRounds(_, _, _)
nextClimbRounds(t, n, fuel) ==
    IF n = nil THEN 0
    ELSE IF fuel = 0 \/ t.parent[n] = nil \/ isLeftChild(t, n) THEN 1
    ELSE 1 + nextClimbRounds(t, t.parent[n], fuel - 1)

\* the rounds of the loop of prev, the climb from n
RECURSIVE prevClimbRounds(_, _, _)
prevClimbRounds(t, n, fuel) ==
    IF n = nil THEN 0
    ELSE IF fuel = 0 \/ t.parent[n] = nil \/ isRightChild(t, n) THEN 1
    ELSE 1 + prevClimbRounds(t, t.parent[n], fuel - 1)

\* the rounds of the loop of Insert from node n up
RECURSIVE insertFixupRounds(_, _, _)
insertFixupRounds(t, n, fuel) ==
    IF fuel = 0 \/ t.parent[n] = nil THEN 1
    ELSE IF t.color[t.parent[n]] = black THEN 1
    ELSE
      LET p == t.parent[n]
          grandparent == t.parent[p]
          uncle == IF isLeftChild(t, p) THEN t.right[grandparent]
                   ELSE t.left[grandparent]
          fromLeft(u) == insertFixupRounds(u, u.left[n], fuel - 1)
          fromRight(u) == insertFixupRounds(u, u.right[n], fuel - 1)
      IN  IF uncle # nil /\ t.color[uncle] = red
          THEN 1 + insertFixupRounds(
                       [t EXCEPT !.color[p] = black, !.color[uncle] = black,
                                 !.color[grandparent] = red], grandparent, fuel - 1)
          ELSE IF isRightChild(t, n) /\ isLeftChild(t, p)
          THEN 1 + fromLeft(rotateLeft(t, p))
          ELSE IF isLeftChild(t, n) /\ isRightChild(t, p)
          THEN 1 + fromRight(rotateRight(t, p))
          ELSE 1

\* the rounds of the loop of Insert in Insert(it); none when it is not inserted
InsertRounds(t, it) ==
    LET n == newNode(t, it)
        finish(r) == IF ~r.ok THEN 0
                     ELSE insertFixupRounds([r.t EXCEPT !.color[n] = red], n, Fuel)
    IN  finish(doInsert([t EXCEPT !.item[n] = it, !.color[n] = red], n))

\* the rounds of the loop of deleteCase1 from node n up
RECURSIVE deleteCase1Rounds(_, _, _)
deleteCase1Rounds(t, n, fuel) ==
    IF fuel = 0 \/ t.parent[n] = nil THEN 1
    ELSE
      LET p == t.parent[n]
          rotateParent(u) == IF n = u.left[p] THEN rotateLeft(u, p)
                             ELSE rotateRight(u, p)
          redSibling(u) ==
              IF getColor(u, sibling(u, n)) = red
              THEN rotateParent([u EXCEPT !.color[p] = red,
                                          !.color[sibling(u, n)] = black])
              ELSE u
          rest(u) ==
              IF /\ getColor(u, p) = black
                 /\ getColor(u, sibling(u, n)) = black
                 /\ getColor(u, u.left[sibling(u, n)]) = black
                 /\ getColor(u, u.right[sibling(u, n)]) = black
              THEN 1 + deleteCase1Rounds([u EXCEPT !.color[sibling(u, n)] = red],
                                         p, fuel - 1)
              ELSE 1
      IN  rest(redSibling(t))

\* the rounds of the loop of deleteCase1 in doDelete(n); none when n is red
doDeleteRounds(t, n) ==
    LET fixup(u) ==
            LET child == IF u.right[n] = nil THEN u.left[n] ELSE u.right[n]
            IN  IF u.color[n] = black
                THEN deleteCase1Rounds([u EXCEPT !.color[n] = getColor(u, child)],
                                       n, Fuel)
                ELSE 0
    IN  fixup(IF t.left[n] # nil /\ t.right[n] # nil THEN splice(t, n) ELSE t)

\* ------------------------------------------------------------- actions
\* the tree variables take the fields of t
Store(t) ==
    /\ root' = t.root /\ minNode' = t.minNode /\ maxNode' = t.maxNode
    /\ count' = t.count
    /\ item' = t.item /\ parent' = t.parent /\ left' = t.left
    /\ right' = t.right /\ color' = t.color

treeVars == <<root, minNode, maxNode, count, item, parent, left, right, color>>

\* what a call returned: ok for a bool, node for an iterator, item for an
\* item; panic when doAssert failed
Ret(op, arg, node, ok, it, panic) ==
    [op |-> op, arg |-> arg, node |-> node, ok |-> ok, item |-> it, panic |-> panic]

\* a call that returned r.ok and left the tree r.t
Returned(op, arg, r) ==
    /\ Store(r.t)
    /\ last' = Ret(op, arg, nil, r.ok, NoItem, FALSE)

\* an Iterator a program keeps: its node and the item it was at when the
\* program got it; pred tells whether the last deletion spliced this node, as
\* the predecessor, into the place of the deleted one ("adjacent" when it was
\* a child of the deleted node, "apart" when not, "no" otherwise)
KeptIterator(n, it, p) == [node |-> n, item |-> it, pred |-> p]

\* the program keeps none
NoIterator == KeptIterator(nil, NoItem, "no")

\* the goroutines of a program that calls the tree from two of them
Threads == 1..2

\* the place of a goroutine: line:k of function fn
L(fn, line, k) == [fn |-> fn, line |-> line, k |-> k]

\* a goroutine that has not made its call: no locals, nothing on its stack.
\* The pointers n .. p, the booleans rb and isLeft, the colours c and tc, the
\* count tmp and the items ti and ci are the locals, arguments and results of
\* the functions of rbtree.go the call runs.
Idle == [pc |-> L("idle", 0, 1), stack |-> <<>>, op |-> "none", it |-> NoItem,
         ok |-> FALSE,
         n |-> nil, parent |-> nil, gp |-> nil, uncle |-> nil, x |-> nil,
         y |-> nil, a |-> nil, cn |-> nil, sn |-> nil, rn |-> nil, pred |-> nil,
         tp |-> nil, tl |-> nil, tr |-> nil, child |-> nil, d |-> nil,
         oldn |-> nil, newn |-> nil, g |-> nil, succ |-> nil, nx |-> nil,
         m |-> nil, p |-> nil,
         rb |-> FALSE, isLeft |-> FALSE, c |-> red, tc |-> red, tmp |-> 0,
         ti |-> NoItem, ci |-> NoItem]

\* a goroutine whose call of op with it has returned ok
Done(op, it, ok) == [Idle EXCEPT !.pc = L("done", 0, 1), !.op = op, !.it = it, !.ok = ok]

\* the mutex: whether the program puts its calls between Lock and Unlock, and
\* the goroutine that holds it (0 for none)
Mutex(used, holder) == [used |-> used, holder |-> holder]

\* a program with one goroutine uses no mutex
NoLock == Mutex(FALSE, 0)

\* the nodes of the tree: those with an item
Live == {a \in Addr : item[a] # NoItem}

Init ==
    /\ root = nil /\ minNode = nil /\ maxNode = nil /\ count = 0
    /\ item = NewTree.item /\ parent = NewTree.parent /\ left = NewTree.left
    /\ right = NewTree.right /\ color = NewTree.color
    /\ last = Ret("NewTree", NoItem, nil, FALSE, NoItem, FALSE)
    /\ nIns = 0 /\ nDel = 0
    /\ oracle = <<>>
    /\ iter = NoIterator
    /\ thread = [i \in Threads |-> Idle]
    /\ lock = NoLock

\* the items the tree holds: those of the nodes reached from root by left and
\* right links (at most fuel links deep)
RECURSIVE ItemsBelow(_, _, _)
ItemsBelow(t, n, fuel) ==
    IF n = nil \/ fuel = 0 THEN {}
    ELSE ItemsBelow(t, t.left[n], fuel - 1) \cup {t.item[n]}
         \cup ItemsBelow(t, t.right[n], fuel - 1)

Contents(t) == ItemsBelow(t, t.root, MaxKey + 1)

HasKey(t, k) == \E it \in Contents(t) : it.key = k

\* tree.Insert(it).  The code reads an item through compare alone, which sees
\* the key, so a key's first item has value 1 without loss; an item of a key
\* that is already stored is tried with every value.
InsertCall(it) ==
    /\ it.val = 1 \/ HasKey(T, it.key)
    /\ Returned("Insert", it, Insert(T, it))

\* tree.DeleteWithKey(MyItem{k, ""})
DeleteWithKeyCall(k) == Returned("DeleteWithKey", Probe(k), DeleteWithKey(T, Probe(k)))

\* tree.DeleteWithIterator(Iterator{tree, n}); with n = nil,
\* doAssert(!iter.End()) panics before anything is written
DeleteWithIteratorCall(n) ==
    IF n = nil
    THEN /\ UNCHANGED treeVars
         /\ last' = Ret("DeleteWithIterator", NoItem, nil, FALSE, NoItem, TRUE)
    ELSE /\ Store(DeleteWithIterator(T, n))
         /\ last' = Ret("DeleteWithIterator", item[n], n, FALSE, NoItem, FALSE)

\* tree.Get(MyItem{k, ""})
GetCall(k) ==
    /\ last' = Ret("Get", Probe(k), nil, FALSE, Get(T, Probe(k)), FALSE)
    /\ UNCHANGED treeVars

\* tree.FindGE(MyItem{k, ""})
FindGECall(k) ==
    /\ last' = Ret("FindGE", Probe(k), FindGE(T, Probe(k)), FALSE, NoItem, FALSE)
    /\ UNCHANGED treeVars

\* FindLE that leaves the node it found in the tree's minNode
FindLECall_minMoved(k) ==
    /\ last' = Ret("FindLE", Probe(k), FindLE(T, Probe(k)), FALSE, NoItem, FALSE)
    /\ minNode' = FindLE(T, Probe(k))
    /\ UNCHANGED <<root, maxNode, count, item, parent, left, right, color>>

\* tree.FindLE(MyItem{k, ""})
FindLECall(k) ==
    /\ last' = Ret("FindLE", Probe(k), FindLE(T, Probe(k)), FALSE, NoItem, FALSE)
    /\ UNCHANGED treeVars

\* the calls of a program that uses the tree, in any order
Next ==
    \/ \E it \in Items : InsertCall(it) /\ UNCHANGED <<nIns, nDel, oracle, iter, thread, lock>>
    \/ \E k \in Keys : DeleteWithKeyCall(k) /\ UNCHANGED <<nIns, nDel, oracle, iter, thread, lock>>
    \/ \E n \in Live \cup {nil} :
          DeleteWithIteratorCall(n) /\ UNCHANGED <<nIns, nDel, oracle, iter, thread, lock>>
    \/ \E k \in Keys : GetCall(k) /\ UNCHANGED <<nIns, nDel, oracle, iter, thread, lock>>
    \/ \E k \in Keys : FindGECall(k) /\ UNCHANGED <<nIns, nDel, oracle, iter, thread, lock>>
    \/ \E k \in Keys : FindLECall(k) /\ UNCHANGED <<nIns, nDel, oracle, iter, thread, lock>>

Spec == Init /\ [][Next]_vars

\* ---------------------------------------------- the calls, counted
\* nIns counts the Insert calls that returned true, nDel the deletions done
CountedInsert(it) ==
    /\ nIns < MaxIns
    /\ InsertCall(it)
    /\ nIns' = IF last'.ok THEN nIns + 1 ELSE nIns
    /\ UNCHANGED <<nDel, oracle, iter, thread, lock>>

CountedDeleteWithKey(k) ==
    /\ nDel < MaxDel
    /\ DeleteWithKeyCall(k)
    /\ nDel' = IF last'.ok THEN nDel + 1 ELSE nDel
    /\ UNCHANGED <<nIns, oracle, iter, thread, lock>>

CountedDeleteWithIterator(n) ==
    /\ nDel < MaxDel
    /\ DeleteWithIteratorCall(n)
    /\ nDel' = IF last'.panic THEN nDel ELSE nDel + 1
    /\ UNCHANGED <<nIns, oracle, iter, thread, lock>>

NextCount ==
    \/ \E it \in Items : CountedInsert(it)
    \/ \E k \in Keys : CountedDeleteWithKey(k)
    \/ \E n \in Live \cup {nil} : CountedDeleteWithIterator(n)

SpecCount == Init /\ [][NextCount]_vars

\* ------------------------------------------- TestRandomized and its oracle
\* sort.Sort(o): the elements of data in ascending order
RECURSIVE SortSeq(_)
SortSeq(data) ==
    IF data = <<>> THEN <<>>
    ELSE LET i == CHOOSE i \in DOMAIN data : \A j \in DOMAIN data : data[i] <= data[j]
         IN  <<data[i]>> \o SortSeq(SubSeq(data, 1, i - 1) \o SubSeq(data, i + 1, Len(data)))

oracleInsert(data, key) ==
    IF \E i \in DOMAIN data : data[i] = key THEN data
    ELSE SortSeq(Append(data, key))

oracleDelete(data, key) ==
    IF \E i \in DOMAIN data : data[i] = key
    THEN LET i == CHOOSE i \in DOMAIN data :
                    data[i] = key /\ \A j \in 1..(i - 1) : data[j] # key
         IN  SubSeq(data, 1, i - 1) \o SubSeq(data, i + 1, Len(data))
    ELSE data

\* an oracleIterator is its index, here from 1: Len(data) + 1 is End, 1 is Begin
oracleFindGE(data, key) ==
    IF \E i \in DOMAIN data : data[i] >= key
    THEN CHOOSE i \in DOMAIN data :
             data[i] >= key /\ \A j \in 1..(i - 1) : data[j] < key
    ELSE Len(data) + 1

oracleFindLE(data, key) ==
    LET i == oracleFindGE(data, key)
    IN  IF i <= Len(data) /\ data[i] = key THEN i
        ELSE IF i = 1 THEN Len(data) + 1
        ELSE i - 1

\* r.Intn(numKeys), then o.Insert(key) and tree.Insert(key)
RandInsert(k) ==
    /\ InsertCall(MkItem(k, 1))
    /\ oracle' = oracleInsert(oracle, k)
    /\ UNCHANGED <<nIns, nDel, iter, thread, lock>>

\* o.RandomExistingKey, then o.Delete(key) and tree.DeleteWithKey(key)
RandDeleteExisting(k) ==
    /\ \E i \in DOMAIN oracle : oracle[i] = k
    /\ DeleteWithKeyCall(k)
    /\ oracle' = oracleDelete(oracle, k)
    /\ UNCHANGED <<nIns, nDel, iter, thread, lock>>

NextRandomized ==
    \/ \E k \in Keys : RandInsert(k)
    \/ \E k \in Keys : RandDeleteExisting(k)

SpecRandomized == Init /\ [][NextRandomized]_vars

\* ------------------------------------- the methods of Iterator, as calls
\* what a method gives: a panic, or a node (Next, Prev), an item (Item), a
\* bool (End, Begin)
Panicked == [panic |-> TRUE, node |-> nil, item |-> NoItem, ok |-> FALSE]

Gave(node, it, ok) == [panic |-> FALSE, node |-> node, item |-> it, ok |-> ok]

\* iter.Item(): iter.node.item, a nil dereference at End
ItemResult(t, n) ==
    IF n = nil THEN Panicked ELSE Gave(nil, IteratorItem(t, n), FALSE)

\* iter.Next()
NextResult(t, n) ==
    IF ~doAssert(~IteratorEnd(n)) THEN Panicked
    ELSE Gave(IteratorNext(t, n), NoItem, FALSE)

\* Prev without its first doAssert
PrevResult_noAssert(t, n) ==
    IF IteratorEnd(n) /\ ~doAssert(TreeLen(t) > 0) THEN Panicked
    ELSE Gave(IteratorPrev(t, n), NoItem, FALSE)

\* iter.Prev()
PrevResult(t, n) ==
    IF ~doAssert(~IteratorBegin(t, n)) THEN Panicked
    ELSE IF IteratorEnd(n) /\ ~doAssert(TreeLen(t) > 0) THEN Panicked
    ELSE Gave(IteratorPrev(t, n), NoItem, FALSE)

\* a method of Iterator{tree, n} was called and gave r; arg is the item at n,
\* NoItem for the End iterator
IteratorCall(op, n, r) ==
    /\ last' = Ret(op, IF n = nil THEN NoItem ELSE item[n], r.node, r.ok,
                   r.item, r.panic)
    /\ UNCHANGED treeVars

EndCall(n) == IteratorCall("End", n, Gave(nil, NoItem, IteratorEnd(n)))

BeginCall(n) == IteratorCall("Begin", n, Gave(nil, NoItem, IteratorBegin(T, n)))

ItemCall(n) == IteratorCall("Item", n, ItemResult(T, n))

NextCall(n) == IteratorCall("Next", n, NextResult(T, n))

PrevCall(n) == IteratorCall("Prev", n, PrevResult(T, n))

\* tree.Len(); the int it returns is the val of the item field of last
LenCall ==
    /\ last' = Ret("Len", NoItem, nil, FALSE, MkItem(0, TreeLen(T)), FALSE)
    /\ UNCHANGED treeVars

\* tree.Begin() and tree.End()
TreeBeginCall ==
    /\ last' = Ret("Tree.Begin", NoItem, Begin(T), FALSE, NoItem, FALSE)
    /\ UNCHANGED treeVars

TreeEndCall ==
    /\ last' = Ret("Tree.End", NoItem, End(T), FALSE, NoItem, FALSE)
    /\ UNCHANGED treeVars

\* the iterators a program can hold: one at each node of the tree, and End
Iterators == Live \cup {nil}

\* a program that changes the tree and in between reads it through the tree's
\* lookups and through iterators
NextIter ==
    \/ \E k \in Keys : InsertCall(MkItem(k, 1)) /\ UNCHANGED <<nIns, nDel, oracle, iter, thread, lock>>
    \/ \E n \in Iterators :
          DeleteWithIteratorCall(n) /\ UNCHANGED <<nIns, nDel, oracle, iter, thread, lock>>
    \/ \E n \in Iterators : EndCall(n) /\ UNCHANGED <<nIns, nDel, oracle, iter, thread, lock>>
    \/ \E n \in Iterators : BeginCall(n) /\ UNCHANGED <<nIns, nDel, oracle, iter, thread, lock>>
    \/ \E n \in Iterators : ItemCall(n) /\ UNCHANGED <<nIns, nDel, oracle, iter, thread, lock>>
    \/ \E n \in Iterators : NextCall(n) /\ UNCHANGED <<nIns, nDel, oracle, iter, thread, lock>>
    \/ \E n \in Iterators : PrevCall(n) /\ UNCHANGED <<nIns, nDel, oracle, iter, thread, lock>>
    \/ LenCall /\ UNCHANGED <<nIns, nDel, oracle, iter, thread, lock>>
    \/ TreeBeginCall /\ UNCHANGED <<nIns, nDel, oracle, iter, thread, lock>>
    \/ TreeEndCall /\ UNCHANGED <<nIns, nDel, oracle, iter, thread, lock>>
    \/ \E k \in Keys : GetCall(k) /\ UNCHANGED <<nIns, nDel, oracle, iter, thread, lock>>
    \/ \E k \in Keys : FindGECall(k) /\ UNCHANGED <<nIns, nDel, oracle, iter, thread, lock>>
    \/ \E k \in Keys : FindLECall(k) /\ UNCHANGED <<nIns, nDel, oracle, iter, thread, lock>>

SpecIter == Init /\ [][NextIter]_vars

\* ------------------------------- a program that keeps an iterator
\* iter := tree.FindGE(MyItem{k, ""}), when that is at an item
KeepFindGE(k) ==
    /\ FindGE(T, Probe(k)) # nil
    /\ FindGECall(k)
    /\ iter' = KeptIterator(FindGE(T, Probe(k)), item[FindGE(T, Probe(k))], "no")
    /\ UNCHANGED <<nIns, nDel, oracle, thread, lock>>

\* tree.Insert(MyItem{k, 1}) while the iterator is kept
KeepInsert(k) ==
    /\ InsertCall(MkItem(k, 1))
    /\ iter' = [iter EXCEPT !.pred = "no"]
    /\ UNCHANGED <<nIns, nDel, oracle, thread, lock>>

\* the iterator after doDelete(n): the program drops the iterator at n
AfterDelete(n) ==
    IF n = iter.node THEN NoIterator
    ELSE IF left[n] # nil /\ right[n] # nil /\ maxPredecessor(T, n) = iter.node
    THEN [iter EXCEPT !.pred = IF parent[iter.node] = n THEN "adjacent" ELSE "apart"]
    ELSE [iter EXCEPT !.pred = "no"]

\* tree.DeleteWithIterator(Iterator{tree, n}) while the iterator is kept
KeepDeleteWithIterator(n) ==
    /\ DeleteWithIteratorCall(n)
    /\ iter' = AfterDelete(n)
    /\ UNCHANGED <<nIns, nDel, oracle, thread, lock>>

\* tree.DeleteWithKey(MyItem{k, ""}) while the iterator is kept; the node
\* deleted is the one FindGE is at
KeepDeleteWithKey(k) ==
    /\ DeleteWithKeyCall(k)
    /\ iter' = IF FindGE(T, Probe(k)) = nil THEN [iter EXCEPT !.pred = "no"]
               ELSE AfterDelete(FindGE(T, Probe(k)))
    /\ UNCHANGED <<nIns, nDel, oracle, thread, lock>>

\* the keys of the program that keeps an iterator
KeptKeys == 1..MaxKeptKey

NextKeep ==
    \/ \E k \in KeptKeys : KeepFindGE(k)
    \/ \E k \in KeptKeys : KeepInsert(k)
    \/ \E n \in Live : KeepDeleteWithIterator(n)
    \/ \E k \in KeptKeys : KeepDeleteWithKey(k)

SpecKeep == Init /\ [][NextKeep]_vars

\* ------------------- a program that calls the tree from two goroutines
\* The program fills the tree with calls of Insert and DeleteWithKey, then
\* starts two goroutines that make one call of Insert or DeleteWithKey each,
\* all with keys of 1..MaxThreadKey.  It either puts the two calls between
\* Lock and Unlock of one mutex, or uses none.
\*
\* A goroutine runs its call one memory access at a time: a step is at most
\* one read or one write of a field of the tree or of a node that another
\* goroutine can reach, together with the computation on locals that follows
\* it.  The place of a goroutine is the function it is in, the line of
\* rbtree.go and the number of the access on that line; a place numbered 0 or
\* less is a return point or a branch on locals, and is passed within the
\* step that reaches it.  The copy tmp := *pred (l.473) is one read per
\* field; root.count++ and root.count-- are a read and a write; in l.618 the
\* call of sibling comes before the read of n.parent.  A nil dereference or a
\* failed doAssert panics, and the panic ends the program.
ThreadKeys == 1..MaxThreadKey

\* frame r is at line:k of the function it is in
At(r, line, k) == r.pc.line = line /\ r.pc.k = k

\* a goroutine and the tree after a step
Ok(r, t) == [r |-> r, t |-> t]

\* panic: the goroutine stops where it is
Crash(r, t) == [r |-> [r EXCEPT !.pc = L("panic", r.pc.line, 1)], t |-> t]

\* an access through pointer p: panics when p is nil, else goes on as goOn
Deref(ptr, r, t, goOn) == IF ptr = nil THEN Crash(r, t) ELSE goOn

\* a call: the return point is pushed and the callee starts at entry
Enter(r, entry, ret) == [r EXCEPT !.stack = <<ret>> \o @, !.pc = entry]

\* a return to the return point on top of the stack
Leave(r) == [r EXCEPT !.pc = Head(r.stack), !.stack = Tail(r.stack)]

\* func (n *node) isLeftChild() bool { return n == n.parent.left }
\* receiver r.cn, result r.rb
isLeftChildCode(r, t) ==
    CASE At(r, 279, 1) -> \* n.parent
           Deref(r.cn, r, t,
                 Ok([r EXCEPT !.a = t.parent[r.cn], !.pc = L("isLeftChild", 279, 2)], t))
      [] At(r, 279, 2) -> \* .left; return n == ...
           Deref(r.a, r, t, Ok(Leave([r EXCEPT !.rb = (r.cn = t.left[r.a]), !.cn = nil]), t))

\* func (n *node) isRightChild() bool { return n == n.parent.right }
isRightChildCode(r, t) ==
    CASE At(r, 283, 1) -> \* n.parent
           Deref(r.cn, r, t,
                 Ok([r EXCEPT !.a = t.parent[r.cn], !.pc = L("isRightChild", 283, 2)], t))
      [] At(r, 283, 2) -> \* .right; return n == ...
           Deref(r.a, r, t, Ok(Leave([r EXCEPT !.rb = (r.cn = t.right[r.a]), !.cn = nil]), t))

\* func (n *node) sibling() *node: receiver r.sn, result r.rn
siblingCode(r, t) ==
    CASE At(r, 287, 1) -> \* doAssert(n.parent != nil); then n.isLeftChild()
           Deref(r.sn, r, t,
                 IF ~doAssert(t.parent[r.sn] # nil) THEN Crash(r, t)
                 ELSE Ok(Enter([r EXCEPT !.cn = r.sn], L("isLeftChild", 279, 1),
                               L("sibling", 288, 0)), t))
      [] At(r, 288, 0) -> \* if n.isLeftChild()
           Ok([r EXCEPT !.pc = IF r.rb THEN L("sibling", 289, 1) ELSE L("sibling", 291, 1)], t)
      [] At(r, 289, 1) -> \* return n.parent.right: n.parent
           Deref(r.sn, r, t,
                 Ok([r EXCEPT !.a = t.parent[r.sn], !.pc = L("sibling", 289, 2)], t))
      [] At(r, 289, 2) -> \* .right
           Deref(r.a, r, t, Ok(Leave([r EXCEPT !.rn = t.right[r.a], !.sn = nil]), t))
      [] At(r, 291, 1) -> \* return n.parent.left: n.parent
           Deref(r.sn, r, t,
                 Ok([r EXCEPT !.a = t.parent[r.sn], !.pc = L("sibling", 291, 2)], t))
      [] At(r, 291, 2) -> \* .left
           Deref(r.a, r, t, Ok(Leave([r EXCEPT !.rn = t.left[r.a], !.sn = nil]), t))

\* func (root *Tree) rotateLeft(x *node): argument r.x, local r.y
rotateLeftCode(r, t) ==
    CASE At(r, 652, 1) -> \* y := x.right
           Deref(r.x, r, t,
                 Ok([r EXCEPT !.y = t.right[r.x], !.pc = L("rotateLeft", 653, 1)], t))
      [] At(r, 653, 1) -> \* x.right = y.left: y.left
           Deref(r.y, r, t,
                 Ok([r EXCEPT !.a = t.left[r.y], !.pc = L("rotateLeft", 653, 2)], t))
      [] At(r, 653, 2) -> \* x.right = y.left: the write
           Ok([r EXCEPT !.pc = L("rotateLeft", 654, 1)], [t EXCEPT !.right[r.x] = r.a])
      [] At(r, 654, 1) -> \* if y.left != nil
           Ok([r EXCEPT !.pc = IF t.left[r.y] # nil THEN L("rotateLeft", 655, 1)
                                ELSE L("rotateLeft", 657, 1)], t)
      [] At(r, 655, 1) -> \* y.left.parent = x: y.left
           Ok([r EXCEPT !.a = t.left[r.y], !.pc = L("rotateLeft", 655, 2)], t)
      [] At(r, 655, 2) -> \* y.left.parent = x: the write
           Deref(r.a, r, t,
                 Ok([r EXCEPT !.pc = L("rotateLeft", 657, 1)], [t EXCEPT !.parent[r.a] = r.x]))
      [] At(r, 657, 1) -> \* y.parent = x.parent: x.parent
           Ok([r EXCEPT !.a = t.parent[r.x], !.pc = L("rotateLeft", 657, 2)], t)
      [] At(r, 657, 2) -> \* y.parent = x.parent: the write
           Ok([r EXCEPT !.pc = L("rotateLeft", 658, 1)], [t EXCEPT !.parent[r.y] = r.a])
      [] At(r, 658, 1) -> \* if x.parent == nil; else x.isLeftChild()
           IF t.parent[r.x] = nil THEN Ok([r EXCEPT !.pc = L("rotateLeft", 659, 1)], t)
           ELSE Ok(Enter([r EXCEPT !.cn = r.x], L("isLeftChild", 279, 1),
                         L("rotateLeft", 661, 0)), t)
      [] At(r, 659, 1) -> \* root.root = y
           Ok([r EXCEPT !.pc = L("rotateLeft", 667, 1)], [t EXCEPT !.root = r.y])
      [] At(r, 661, 0) -> \* if x.isLeftChild()
           Ok([r EXCEPT !.pc = IF r.rb THEN L("rotateLeft", 662, 1)
                                ELSE L("rotateLeft", 664, 1)], t)
      [] At(r, 662, 1) -> \* x.parent.left = y: x.parent
           Ok([r EXCEPT !.a = t.parent[r.x], !.pc = L("rotateLeft", 662, 2)], t)
      [] At(r, 662, 2) -> \* x.parent.left = y: the write
           Deref(r.a, r, t,
                 Ok([r EXCEPT !.pc = L("rotateLeft", 667, 1)], [t EXCEPT !.left[r.a] = r.y]))
      [] At(r, 664, 1) -> \* x.parent.right = y: x.parent
           Ok([r EXCEPT !.a = t.parent[r.x], !.pc = L("rotateLeft", 664, 2)], t)
      [] At(r, 664, 2) -> \* x.parent.right = y: the write
           Deref(r.a, r, t,
                 Ok([r EXCEPT !.pc = L("rotateLeft", 667, 1)], [t EXCEPT !.right[r.a] = r.y]))
      [] At(r, 667, 1) -> \* y.left = x
           Ok([r EXCEPT !.pc = L("rotateLeft", 668, 1)], [t EXCEPT !.left[r.y] = r.x])
      [] At(r, 668, 1) -> \* x.parent = y; return
           Ok(Leave([r EXCEPT !.x = nil, !.y = nil]), [t EXCEPT !.parent[r.x] = r.y])

\* func (root *Tree) rotateRight(y *node): argument r.y, local r.x
rotateRightCode(r, t) ==
    CASE At(r, 677, 1) -> \* x := y.left
           Deref(r.y, r, t,
                 Ok([r EXCEPT !.x = t.left[r.y], !.pc = L("rotateRight", 680, 1)], t))
      [] At(r, 680, 1) -> \* y.left = x.right: x.right
           Deref(r.x, r, t,
                 Ok([r EXCEPT !.a = t.right[r.x], !.pc = L("rotateRight", 680, 2)], t))
      [] At(r, 680, 2) -> \* y.left = x.right: the write
           Ok([r EXCEPT !.pc = L("rotateRight", 681, 1)], [t EXCEPT !.left[r.y] = r.a])
      [] At(r, 681, 1) -> \* if x.right != nil
           Ok([r EXCEPT !.pc = IF t.right[r.x] # nil THEN L("rotateRight", 682, 1)
                                ELSE L("rotateRight", 685, 1)], t)
      [] At(r, 682, 1) -> \* x.right.parent = y: x.right
           Ok([r EXCEPT !.a = t.right[r.x], !.pc = L("rotateRight", 682, 2)], t)
      [] At(r, 682, 2) -> \* x.right.parent = y: the write
           Deref(r.a, r, t,
                 Ok([r EXCEPT !.pc = L("rotateRight", 685, 1)], [t EXCEPT !.parent[r.a] = r.y]))
      [] At(r, 685, 1) -> \* x.parent = y.parent: y.parent
           Ok([r EXCEPT !.a = t.parent[r.y], !.pc = L("rotateRight", 685, 2)], t)
      [] At(r, 685, 2) -> \* x.parent = y.parent: the write
           Ok([r EXCEPT !.pc = L("rotateRight", 686, 1)], [t EXCEPT !.parent[r.x] = r.a])
      [] At(r, 686, 1) -> \* if y.parent == nil; else y.isLeftChild()
           IF t.parent[r.y] = nil THEN Ok([r EXCEPT !.pc = L("rotateRight", 687, 1)], t)
           ELSE Ok(Enter([r EXCEPT !.cn = r.y], L("isLeftChild", 279, 1),
                         L("rotateRight", 689, 0)), t)
      [] At(r, 687, 1) -> \* root.root = x
           Ok([r EXCEPT !.pc = L("rotateRight", 695, 1)], [t EXCEPT !.root = r.x])
      [] At(r, 689, 0) -> \* if y.isLeftChild()
           Ok([r EXCEPT !.pc = IF r.rb THEN L("rotateRight", 690, 1)
                                ELSE L("rotateRight", 692, 1)], t)
      [] At(r, 690, 1) -> \* y.parent.left = x: y.parent
           Ok([r EXCEPT !.a = t.parent[r.y], !.pc = L("rotateRight", 690, 2)], t)
      [] At(r, 690, 2) -> \* y.parent.left = x: the write
           Deref(r.a, r, t,
                 Ok([r EXCEPT !.pc = L("rotateRight", 695, 1)], [t EXCEPT !.left[r.a] = r.x]))
      [] At(r, 692, 1) -> \* y.parent.right = x: y.parent
           Ok([r EXCEPT !.a = t.parent[r.y], !.pc = L("rotateRight", 692, 2)], t)
      [] At(r, 692, 2) -> \* y.parent.right = x: the write
           Deref(r.a, r, t,
                 Ok([r EXCEPT !.pc = L("rotateRight", 695, 1)], [t EXCEPT !.right[r.a] = r.x]))
      [] At(r, 695, 1) -> \* x.right = y
           Ok([r EXCEPT !.pc = L("rotateRight", 696, 1)], [t EXCEPT !.right[r.x] = r.y])
      [] At(r, 696, 1) -> \* y.parent = x; return
           Ok(Leave([r EXCEPT !.x = nil, !.y = nil]), [t EXCEPT !.parent[r.y] = r.x])

\* func (root *Tree) maybeSetMinNode(n *node): argument r.n
maybeSetMinNodeCode(r, t) ==
    CASE At(r, 357, 1) -> \* if root.minNode == nil
           Ok([r EXCEPT !.pc = IF t.minNode = nil THEN L("maybeSetMinNode", 358, 1)
                                ELSE L("maybeSetMinNode", 360, 1)], t)
      [] At(r, 358, 1) -> \* root.minNode = n
           Ok([r EXCEPT !.pc = L("maybeSetMinNode", 359, 1)], [t EXCEPT !.minNode = r.n])
      [] At(r, 359, 1) -> \* root.maxNode = n
           Ok(Leave(r), [t EXCEPT !.maxNode = r.n])
      [] At(r, 360, 1) -> \* else if root.compare(n.item, root.minNode.item) < 0: n.item
           Ok([r EXCEPT !.ci = t.item[r.n], !.pc = L("maybeSetMinNode", 360, 2)], t)
      [] At(r, 360, 2) -> \* root.minNode
           Ok([r EXCEPT !.a = t.minNode, !.pc = L("maybeSetMinNode", 360, 3)], t)
      [] At(r, 360, 3) -> \* .item; compare
           Deref(r.a, r, t,
                 IF compare(r.ci, t.item[r.a]) < 0
                 THEN Ok([r EXCEPT !.pc = L("maybeSetMinNode", 361, 1)], t)
                 ELSE Ok(Leave(r), t))
      [] At(r, 361, 1) -> \* root.minNode = n
           Ok(Leave(r), [t EXCEPT !.minNode = r.n])

\* func (root *Tree) maybeSetMaxNode(n *node): argument r.n
maybeSetMaxNodeCode(r, t) ==
    CASE At(r, 366, 1) -> \* if root.maxNode == nil
           Ok([r EXCEPT !.pc = IF t.maxNode = nil THEN L("maybeSetMaxNode", 367, 1)
                                ELSE L("maybeSetMaxNode", 369, 1)], t)
      [] At(r, 367, 1) -> \* root.minNode = n
           Ok([r EXCEPT !.pc = L("maybeSetMaxNode", 368, 1)], [t EXCEPT !.minNode = r.n])
      [] At(r, 368, 1) -> \* root.maxNode = n
           Ok(Leave(r), [t EXCEPT !.maxNode = r.n])
      [] At(r, 369, 1) -> \* else if root.compare(n.item, root.maxNode.item) > 0: n.item
           Ok([r EXCEPT !.ci = t.item[r.n], !.pc = L("maybeSetMaxNode", 369, 2)], t)
      [] At(r, 369, 2) -> \* root.maxNode
           Ok([r EXCEPT !.a = t.maxNode, !.pc = L("maybeSetMaxNode", 369, 3)], t)
      [] At(r, 369, 3) -> \* .item; compare
           Deref(r.a, r, t,
                 IF compare(r.ci, t.item[r.a]) > 0
                 THEN Ok([r EXCEPT !.pc = L("maybeSetMaxNode", 370, 1)], t)
                 ELSE Ok(Leave(r), t))
      [] At(r, 370, 1) -> \* root.maxNode = n
           Ok(Leave(r), [t EXCEPT !.maxNode = r.n])

\* func (root *Tree) doInsert(n *node) bool: argument r.n, local r.parent,
\* result r.rb.  n is not linked before l.377, l.391 and l.401: no other
\* goroutine has a pointer to it, and the writes of n.parent (l.376, l.390,
\* l.400) are part of the step before.
doInsertCode(r, t) ==
    CASE At(r, 375, 1) -> \* if root.root == nil { n.parent = nil
           IF t.root = nil
           THEN Ok([r EXCEPT !.pc = L("doInsert", 377, 1)], [t EXCEPT !.parent[r.n] = nil])
           ELSE Ok([r EXCEPT !.pc = L("doInsert", 383, 1)], t)
      [] At(r, 377, 1) -> \* root.root = n
           Ok([r EXCEPT !.pc = L("doInsert", 378, 1)], [t EXCEPT !.root = r.n])
      [] At(r, 378, 1) -> \* root.minNode = n
           Ok([r EXCEPT !.pc = L("doInsert", 379, 1)], [t EXCEPT !.minNode = r.n])
      [] At(r, 379, 1) -> \* root.maxNode = n
           Ok([r EXCEPT !.pc = L("doInsert", 380, 1)], [t EXCEPT !.maxNode = r.n])
      [] At(r, 380, 1) -> \* root.count++: the read
           Ok([r EXCEPT !.tmp = t.count, !.pc = L("doInsert", 380, 2)], t)
      [] At(r, 380, 2) -> \* root.count++: the write; return true
           Ok(Leave([r EXCEPT !.tmp = 0, !.rb = TRUE]), [t EXCEPT !.count = r.tmp + 1])
      [] At(r, 383, 1) -> \* parent := root.root
           Ok([r EXCEPT !.parent = t.root, !.pc = L("doInsert", 385, 1)], t)
      [] At(r, 385, 1) -> \* comp := root.compare(n.item, parent.item)
           Deref(r.parent, r, t,
                 LET comp == compare(t.item[r.n], t.item[r.parent])
                 IN  IF comp = 0 THEN Ok(Leave([r EXCEPT !.parent = nil, !.rb = FALSE]), t)
                     ELSE IF comp < 0 THEN Ok([r EXCEPT !.pc = L("doInsert", 389, 1)], t)
                     ELSE Ok([r EXCEPT !.pc = L("doInsert", 399, 1)], t))
      [] At(r, 389, 1) -> \* if parent.left == nil { n.parent = parent
           IF t.left[r.parent] = nil
           THEN Ok([r EXCEPT !.pc = L("doInsert", 391, 1)],
                   [t EXCEPT !.parent[r.n] = r.parent])
           ELSE Ok([r EXCEPT !.pc = L("doInsert", 396, 1)], t)
      [] At(r, 391, 1) -> \* parent.left = n
           Ok([r EXCEPT !.parent = nil, !.pc = L("doInsert", 392, 1)],
              [t EXCEPT !.left[r.parent] = r.n])
      [] At(r, 392, 1) -> \* root.count++: the read
           Ok([r EXCEPT !.tmp = t.count, !.pc = L("doInsert", 392, 2)], t)
      [] At(r, 392, 2) -> \* root.count++: the write; root.maybeSetMinNode(n)
           Ok(Enter([r EXCEPT !.tmp = 0], L("maybeSetMinNode", 357, 1),
                    L("doInsert", 394, 0)),
              [t EXCEPT !.count = r.tmp + 1])
      [] At(r, 394, 0) -> \* return true
           Ok(Leave([r EXCEPT !.rb = TRUE]), t)
      [] At(r, 396, 1) -> \* parent = parent.left
           Ok([r EXCEPT !.parent = t.left[r.parent], !.pc = L("doInsert", 385, 1)], t)
      [] At(r, 399, 1) -> \* if parent.right == nil { n.parent = parent
           IF t.right[r.parent] = nil
           THEN Ok([r EXCEPT !.pc = L("doInsert", 401, 1)],
                   [t EXCEPT !.parent[r.n] = r.parent])
           ELSE Ok([r EXCEPT !.pc = L("doInsert", 406, 1)], t)
      [] At(r, 401, 1) -> \* parent.right = n
           Ok([r EXCEPT !.parent = nil, !.pc = L("doInsert", 402, 1)],
              [t EXCEPT !.right[r.parent] = r.n])
      [] At(r, 402, 1) -> \* root.count++: the read
           Ok([r EXCEPT !.tmp = t.count, !.pc = L("doInsert", 402, 2)], t)
      [] At(r, 402, 2) -> \* root.count++: the write; root.maybeSetMaxNode(n)
           Ok(Enter([r EXCEPT !.tmp = 0], L("maybeSetMaxNode", 366, 1),
                    L("doInsert", 404, 0)),
              [t EXCEPT !.count = r.tmp + 1])
      [] At(r, 404, 0) -> \* return true
           Ok(Leave([r EXCEPT !.rb = TRUE]), t)
      [] At(r, 406, 1) -> \* parent = parent.right
           Ok([r EXCEPT !.parent = t.right[r.parent], !.pc = L("doInsert", 385, 1)], t)

\* func (root *Tree) Insert(item Item) bool, from the return of doInsert
\* (l.126): locals r.n, r.gp (grandparent), r.uncle
InsertCode(r, t) ==
    CASE At(r, 126, 0) -> \* inserted := root.doInsert(n); if !inserted { return false }
           IF r.rb THEN Ok([r EXCEPT !.pc = L("Insert", 131, 1)], t)
           ELSE Ok(Done(r.op, r.it, FALSE), t)
      [] At(r, 131, 1) -> \* n.color = red
           Ok([r EXCEPT !.pc = L("Insert", 135, 1)], [t EXCEPT !.color[r.n] = red])
      [] At(r, 135, 1) -> \* if n.parent == nil
           Deref(r.n, r, t,
                 Ok([r EXCEPT !.gp = nil, !.uncle = nil,
                              !.pc = IF t.parent[r.n] = nil THEN L("Insert", 136, 1)
                                     ELSE L("Insert", 142, 1)], t))
      [] At(r, 136, 1) -> \* n.color = black; break; return true
           Ok(Done(r.op, r.it, TRUE), [t EXCEPT !.color[r.n] = black])
      [] At(r, 142, 1) -> \* if n.parent.color == black: n.parent
           Ok([r EXCEPT !.a = t.parent[r.n], !.pc = L("Insert", 142, 2)], t)
      [] At(r, 142, 2) -> \* .color; break; return true
           Deref(r.a, r, t,
                 IF t.color[r.a] = black THEN Ok(Done(r.op, r.it, TRUE), t)
                 ELSE Ok([r EXCEPT !.pc = L("Insert", 148, 1)], t))
      [] At(r, 148, 1) -> \* grandparent := n.parent.parent: n.parent
           Ok([r EXCEPT !.a = t.parent[r.n], !.pc = L("Insert", 148, 2)], t)
      [] At(r, 148, 2) -> \* .parent
           Deref(r.a, r, t,
                 Ok([r EXCEPT !.gp = t.parent[r.a], !.pc = L("Insert", 150, 1)], t))
      [] At(r, 150, 1) -> \* n.parent.isLeftChild(): n.parent
           Ok(Enter([r EXCEPT !.cn = t.parent[r.n]], L("isLeftChild", 279, 1),
                    L("Insert", 150, 0)), t)
      [] At(r, 150, 0) -> \* if n.parent.isLeftChild()
           Ok([r EXCEPT !.pc = IF r.rb THEN L("Insert", 151, 1) ELSE L("Insert", 153, 1)], t)
      [] At(r, 151, 1) -> \* uncle = grandparent.right; if uncle != nil
           Deref(r.gp, r, t,
                 Ok([r EXCEPT !.uncle = t.right[r.gp],
                              !.pc = IF t.right[r.gp] # nil THEN L("Insert", 155, 1)
                                     ELSE L("Insert", 164, 1)], t))
      [] At(r, 153, 1) -> \* uncle = grandparent.left; if uncle != nil
           Deref(r.gp, r, t,
                 Ok([r EXCEPT !.uncle = t.left[r.gp],
                              !.pc = IF t.left[r.gp] # nil THEN L("Insert", 155, 1)
                                     ELSE L("Insert", 164, 1)], t))
      [] At(r, 155, 1) -> \* && uncle.color == red
           Ok([r EXCEPT !.pc = IF t.color[r.uncle] = red THEN L("Insert", 156, 1)
                                ELSE L("Insert", 164, 1)], t)
      [] At(r, 156, 1) -> \* n.parent.color = black: n.parent
           Ok([r EXCEPT !.a = t.parent[r.n], !.pc = L("Insert", 156, 2)], t)
      [] At(r, 156, 2) -> \* n.parent.color = black: the write
           Deref(r.a, r, t,
                 Ok([r EXCEPT !.pc = L("Insert", 157, 1)], [t EXCEPT !.color[r.a] = black]))
      [] At(r, 157, 1) -> \* uncle.color = black
           Ok([r EXCEPT !.pc = L("Insert", 158, 1)], [t EXCEPT !.color[r.uncle] = black])
      [] At(r, 158, 1) -> \* grandparent.color = red; n = grandparent; continue
           Ok([r EXCEPT !.n = r.gp, !.pc = L("Insert", 135, 1)],
              [t EXCEPT !.color[r.gp] = red])
      [] At(r, 164, 1) -> \* if n.isRightChild()
           Ok(Enter([r EXCEPT !.cn = r.n], L("isRightChild", 283, 1),
                    L("Insert", 164, 0)), t)
      [] At(r, 164, 0) -> \* && ...
           Ok([r EXCEPT !.pc = IF r.rb THEN L("Insert", 164, 2) ELSE L("Insert", 169, 1)], t)
      [] At(r, 164, 2) -> \* n.parent.isLeftChild(): n.parent
           Ok(Enter([r EXCEPT !.cn = t.parent[r.n]], L("isLeftChild", 279, 1),
                    L("Insert", 164, -1)), t)
      [] At(r, 164, -1) ->
           Ok([r EXCEPT !.pc = IF r.rb THEN L("Insert", 165, 1) ELSE L("Insert", 169, 1)], t)
      [] At(r, 165, 1) -> \* root.rotateLeft(n.parent): n.parent
           Ok(Enter([r EXCEPT !.x = t.parent[r.n]], L("rotateLeft", 652, 1),
                    L("Insert", 166, 1)), t)
      [] At(r, 166, 1) -> \* n = n.left; continue
           Ok([r EXCEPT !.n = t.left[r.n], !.pc = L("Insert", 135, 1)], t)
      [] At(r, 169, 1) -> \* if n.isLeftChild()
           Ok(Enter([r EXCEPT !.cn = r.n], L("isLeftChild", 279, 1),
                    L("Insert", 169, 0)), t)
      [] At(r, 169, 0) -> \* && ...
           Ok([r EXCEPT !.pc = IF r.rb THEN L("Insert", 169, 2) ELSE L("Insert", 176, 1)], t)
      [] At(r, 169, 2) -> \* n.parent.isRightChild(): n.parent
           Ok(Enter([r EXCEPT !.cn = t.parent[r.n]], L("isRightChild", 283, 1),
                    L("Insert", 169, -1)), t)
      [] At(r, 169, -1) ->
           Ok([r EXCEPT !.pc = IF r.rb THEN L("Insert", 170, 1) ELSE L("Insert", 176, 1)], t)
      [] At(r, 170, 1) -> \* root.rotateRight(n.parent): n.parent
           Ok(Enter([r EXCEPT !.y = t.parent[r.n]], L("rotateRight", 677, 1),
                    L("Insert", 171, 1)), t)
      [] At(r, 171, 1) -> \* n = n.right; continue
           Ok([r EXCEPT !.n = t.right[r.n], !.pc = L("Insert", 135, 1)], t)
      [] At(r, 176, 1) -> \* n.parent.color = black: n.parent
           Ok([r EXCEPT !.a = t.parent[r.n], !.pc = L("Insert", 176, 2)], t)
      [] At(r, 176, 2) -> \* n.parent.color = black: the write
           Deref(r.a, r, t,
                 Ok([r EXCEPT !.pc = L("Insert", 177, 1)], [t EXCEPT !.color[r.a] = black]))
      [] At(r, 177, 1) -> \* grandparent.color = red
           Deref(r.gp, r, t,
                 Ok([r EXCEPT !.pc = L("Insert", 178, 1)], [t EXCEPT !.color[r.gp] = red]))
      [] At(r, 178, 1) -> \* if n.isLeftChild()
           Ok(Enter([r EXCEPT !.cn = r.n], L("isLeftChild", 279, 1),
                    L("Insert", 178, 0)), t)
      [] At(r, 178, 0) -> \* root.rotateRight(grandparent) else root.rotateLeft(grandparent)
           IF r.rb
           THEN Ok(Enter([r EXCEPT !.y = r.gp], L("rotateRight", 677, 1),
                         L("Insert", 185, 0)), t)
           ELSE Ok(Enter([r EXCEPT !.x = r.gp], L("rotateLeft", 652, 1),
                         L("Insert", 185, 0)), t)
      [] At(r, 185, 0) -> \* break; return true
           Ok(Done(r.op, r.it, TRUE), t)

\* func (n *node) next() *node: receiver r.nx, locals r.m and r.p, result r.rn
nextCode(r, t) ==
    CASE At(r, 297, 1) -> \* if n.right != nil
           Deref(r.nx, r, t,
                 Ok([r EXCEPT !.pc = IF t.right[r.nx] # nil THEN L("next", 298, 1)
                                      ELSE L("next", 306, 1)], t))
      [] At(r, 298, 1) -> \* m := n.right
           Deref(r.nx, r, t,
                 Ok([r EXCEPT !.m = t.right[r.nx], !.pc = L("next", 299, 1)], t))
      [] At(r, 299, 1) -> \* for m.left != nil; return m
           Deref(r.m, r, t,
                 IF t.left[r.m] # nil THEN Ok([r EXCEPT !.pc = L("next", 300, 1)], t)
                 ELSE Ok(Leave([r EXCEPT !.rn = r.m, !.m = nil, !.nx = nil]), t))
      [] At(r, 300, 1) -> \* m = m.left
           Deref(r.m, r, t,
                 Ok([r EXCEPT !.m = t.left[r.m], !.pc = L("next", 299, 1)], t))
      [] At(r, 306, 1) -> \* for n != nil { p := n.parent; if p == nil { return nil }; n.isLeftChild()
           IF r.nx = nil THEN Ok(Leave([r EXCEPT !.rn = nil, !.p = nil]), t)
           ELSE IF t.parent[r.nx] = nil THEN Ok(Leave([r EXCEPT !.rn = nil, !.nx = nil, !.p = nil]), t)
           ELSE Ok(Enter([r EXCEPT !.p = t.parent[r.nx], !.cn = r.nx],
                    L("isLeftChild", 279, 1), L("next", 310, 0)), t)
      [] At(r, 310, 0) -> \* if n.isLeftChild() { return p }; n = p
           IF r.rb THEN Ok(Leave([r EXCEPT !.rn = r.p, !.nx = nil, !.p = nil]), t)
           ELSE Ok([r EXCEPT !.nx = r.p, !.p = nil, !.pc = L("next", 306, 1)], t)

\* func (root *Tree) findGE(key Item) (*node, bool): key r.it, locals r.g (n)
\* and r.succ, result r.rn; DeleteWithKey drops the second result (l.92)
findGECode(r, t) ==
    CASE At(r, 417, 1) -> \* n := root.root; if n == nil { return nil, false }
           IF t.root = nil THEN Ok(Leave([r EXCEPT !.rn = nil]), t)
           ELSE Ok([r EXCEPT !.g = t.root, !.pc = L("findGE", 422, 1)], t)
      [] At(r, 422, 1) -> \* comp := root.compare(key, n.item)
           Deref(r.g, r, t,
                 LET comp == compare(r.it, t.item[r.g])
                 IN  IF comp = 0 THEN Ok(Leave([r EXCEPT !.rn = r.g, !.g = nil]), t)
                     ELSE IF comp < 0 THEN Ok([r EXCEPT !.pc = L("findGE", 426, 1)], t)
                     ELSE Ok([r EXCEPT !.pc = L("findGE", 432, 1)], t))
      [] At(r, 426, 1) -> \* if n.left != nil; else return n, false
           Deref(r.g, r, t,
                 IF t.left[r.g] # nil THEN Ok([r EXCEPT !.pc = L("findGE", 427, 1)], t)
                 ELSE Ok(Leave([r EXCEPT !.rn = r.g, !.g = nil]), t))
      [] At(r, 427, 1) -> \* n = n.left; if n == nil { return nil, false }
           Deref(r.g, r, t,
                 IF t.left[r.g] = nil THEN Ok(Leave([r EXCEPT !.rn = nil, !.g = nil]), t)
                 ELSE Ok([r EXCEPT !.g = t.left[r.g], !.pc = L("findGE", 422, 1)], t))
      [] At(r, 432, 1) -> \* if n.right != nil; else succ := n.next()
           Deref(r.g, r, t,
                 IF t.right[r.g] # nil THEN Ok([r EXCEPT !.pc = L("findGE", 433, 1)], t)
                 ELSE Ok(Enter([r EXCEPT !.nx = r.g, !.g = nil],
                          L("next", 297, 1), L("findGE", 436, 0)), t))
      [] At(r, 433, 1) -> \* n = n.right; if n == nil { return nil, false }
           Deref(r.g, r, t,
                 IF t.right[r.g] = nil THEN Ok(Leave([r EXCEPT !.rn = nil, !.g = nil]), t)
                 ELSE Ok([r EXCEPT !.g = t.right[r.g], !.pc = L("findGE", 422, 1)], t))
      [] At(r, 436, 0) -> \* if succ == nil { return nil, false }
           IF r.rn = nil THEN Ok(Leave(r), t)
           ELSE Ok([r EXCEPT !.succ = r.rn, !.pc = L("findGE", 439, 1)], t)
      [] At(r, 439, 1) -> \* comp = root.compare(key, succ.item); return succ, (comp == 0)
           Deref(r.succ, r, t,
                 Ok(Leave([r EXCEPT !.rn = r.succ, !.succ = nil]), t))

\* func maxPredecessor(n *node) *node: argument r.n, local r.m, result r.pred
maxPredecessorCode(r, t) ==
    CASE At(r, 340, 1) -> \* doAssert(n.left != nil)
           Deref(r.n, r, t,
                 IF doAssert(t.left[r.n] # nil) THEN Ok([r EXCEPT !.pc = L("maxPredecessor", 341, 1)], t)
                 ELSE Crash(r, t))
      [] At(r, 341, 1) -> \* m := n.left
           Deref(r.n, r, t,
                 Ok([r EXCEPT !.m = t.left[r.n], !.pc = L("maxPredecessor", 342, 1)], t))
      [] At(r, 342, 1) -> \* for m.right != nil; return m
           Deref(r.m, r, t,
                 IF t.right[r.m] # nil THEN Ok([r EXCEPT !.pc = L("maxPredecessor", 343, 1)], t)
                 ELSE Ok(Leave([r EXCEPT !.pred = r.m, !.m = nil]), t))
      [] At(r, 343, 1) -> \* m = m.right
           Deref(r.m, r, t,
                 Ok([r EXCEPT !.m = t.right[r.m], !.pc = L("maxPredecessor", 342, 1)], t))

\* func (root *Tree) replaceNode(oldn, newn *node): arguments r.oldn, r.newn
replaceNodeCode(r, t) ==
    CASE At(r, 632, 1) -> \* if oldn.parent == nil
           Deref(r.oldn, r, t,
                 Ok([r EXCEPT !.pc = IF t.parent[r.oldn] = nil THEN L("replaceNode", 633, 1)
                                      ELSE L("replaceNode", 635, 1)], t))
      [] At(r, 633, 1) -> \* root.root = newn; if newn != nil
           IF r.newn # nil THEN Ok([r EXCEPT !.pc = L("replaceNode", 642, 1)], [t EXCEPT !.root = r.newn])
           ELSE Ok(Leave([r EXCEPT !.oldn = nil, !.newn = nil]), [t EXCEPT !.root = r.newn])
      [] At(r, 635, 1) -> \* if oldn == oldn.parent.left: oldn.parent
           Deref(r.oldn, r, t,
                 Ok([r EXCEPT !.a = t.parent[r.oldn], !.pc = L("replaceNode", 635, 2)], t))
      [] At(r, 635, 2) -> \* .left
           Deref(r.a, r, t,
                 Ok([r EXCEPT !.pc = IF r.oldn = t.left[r.a] THEN L("replaceNode", 636, 1)
                                      ELSE L("replaceNode", 638, 1)], t))
      [] At(r, 636, 1) -> \* oldn.parent.left = newn: oldn.parent
           Deref(r.oldn, r, t,
                 Ok([r EXCEPT !.a = t.parent[r.oldn], !.pc = L("replaceNode", 636, 2)], t))
      [] At(r, 636, 2) -> \* oldn.parent.left = newn: the write; if newn != nil
           Deref(r.a, r, t,
                 IF r.newn # nil THEN Ok([r EXCEPT !.pc = L("replaceNode", 642, 1)], [t EXCEPT !.left[r.a] = r.newn])
                 ELSE Ok(Leave([r EXCEPT !.oldn = nil, !.newn = nil]), [t EXCEPT !.left[r.a] = r.newn]))
      [] At(r, 638, 1) -> \* oldn.parent.right = newn: oldn.parent
           Deref(r.oldn, r, t,
                 Ok([r EXCEPT !.a = t.parent[r.oldn], !.pc = L("replaceNode", 638, 2)], t))
      [] At(r, 638, 2) -> \* oldn.parent.right = newn: the write; if newn != nil
           Deref(r.a, r, t,
                 IF r.newn # nil THEN Ok([r EXCEPT !.pc = L("replaceNode", 642, 1)], [t EXCEPT !.right[r.a] = r.newn])
                 ELSE Ok(Leave([r EXCEPT !.oldn = nil, !.newn = nil]), [t EXCEPT !.right[r.a] = r.newn]))
      [] At(r, 642, 1) -> \* newn.parent = oldn.parent: oldn.parent
           Deref(r.oldn, r, t,
                 Ok([r EXCEPT !.a = t.parent[r.oldn], !.pc = L("replaceNode", 642, 2)], t))
      [] At(r, 642, 2) -> \* newn.parent = oldn.parent: the write
           Deref(r.newn, r, t,
                 Ok(Leave([r EXCEPT !.oldn = nil, !.newn = nil]), [t EXCEPT !.parent[r.newn] = r.a]))

\* func (root *Tree) doDelete(n *node): argument r.n; locals r.pred, r.isLeft,
\* r.child and tmp, the copy of *pred, as r.ti, r.tp, r.tl, r.tr, r.tc
doDeleteCode(r, t) ==
    CASE At(r, 453, 1) -> \* if root.minNode == n
           Ok([r EXCEPT !.pc = IF t.minNode = r.n THEN L("doDelete", 454, 1)
                                ELSE L("doDelete", 456, 1)], t)
      [] At(r, 454, 1) -> \* root.minNode = nil
           Ok([r EXCEPT !.pc = L("doDelete", 456, 1)], [t EXCEPT !.minNode = nil])
      [] At(r, 456, 1) -> \* if root.maxNode == n
           Ok([r EXCEPT !.pc = IF t.maxNode = r.n THEN L("doDelete", 457, 1)
                                ELSE L("doDelete", 460, 1)], t)
      [] At(r, 457, 1) -> \* root.maxNode = nil
           Ok([r EXCEPT !.pc = L("doDelete", 460, 1)], [t EXCEPT !.maxNode = nil])
      [] At(r, 460, 1) -> \* root.count--: the read
           Ok([r EXCEPT !.tmp = t.count, !.pc = L("doDelete", 460, 2)], t)
      [] At(r, 460, 2) -> \* root.count--: the write
           Ok([r EXCEPT !.tmp = 0, !.pc = L("doDelete", 469, 1)], [t EXCEPT !.count = r.tmp - 1])
      [] At(r, 469, 1) -> \* if n.left != nil
           Deref(r.n, r, t,
                 Ok([r EXCEPT !.pc = IF t.left[r.n] # nil THEN L("doDelete", 469, 2)
                                      ELSE L("doDelete", 531, 1)], t))
      [] At(r, 469, 2) -> \* && n.right != nil { pred := maxPredecessor(n)
           IF t.right[r.n] # nil THEN Ok(Enter([r EXCEPT !.pred = nil],
                    L("maxPredecessor", 340, 1), L("doDelete", 471, 0)), t)
           ELSE Ok([r EXCEPT !.pc = L("doDelete", 531, 1)], t)
      [] At(r, 471, 0) -> \* doAssert(pred != n); pred.isLeftChild()
           IF doAssert(r.pred # r.n) THEN Ok(Enter([r EXCEPT !.cn = r.pred],
                    L("isLeftChild", 279, 1), L("doDelete", 472, 0)), t)
           ELSE Crash(r, t)
      [] At(r, 472, 0) -> \* isLeft := pred.isLeftChild()
           Ok([r EXCEPT !.isLeft = r.rb, !.pc = L("doDelete", 473, 1)], t)
      [] At(r, 473, 1) -> \* tmp := *pred: item
           Ok([r EXCEPT !.ti = t.item[r.pred], !.pc = L("doDelete", 473, 2)], t)
      [] At(r, 473, 2) -> \* tmp := *pred: parent
           Ok([r EXCEPT !.tp = t.parent[r.pred], !.pc = L("doDelete", 473, 3)], t)
      [] At(r, 473, 3) -> \* tmp := *pred: left
           Ok([r EXCEPT !.tl = t.left[r.pred], !.pc = L("doDelete", 473, 4)], t)
      [] At(r, 473, 4) -> \* tmp := *pred: right
           Ok([r EXCEPT !.tr = t.right[r.pred], !.pc = L("doDelete", 473, 5)], t)
      [] At(r, 473, 5) -> \* tmp := *pred: color; root.replaceNode(n, pred)
           Ok(Enter([r EXCEPT !.tc = t.color[r.pred], !.oldn = r.n, !.newn = r.pred],
                    L("replaceNode", 632, 1), L("doDelete", 475, 1)), t)
      [] At(r, 475, 1) -> \* pred.color = n.color: n.color
           Ok([r EXCEPT !.c = t.color[r.n], !.pc = L("doDelete", 475, 2)], t)
      [] At(r, 475, 2) -> \* pred.color = n.color: the write; if (tmp.parent == n); if isLeft
           Ok([r EXCEPT !.pc = IF r.tp # r.n THEN L("doDelete", 504, 1)
                                ELSE IF r.isLeft THEN L("doDelete", 480, 1)
                                ELSE L("doDelete", 486, 1)],
              [t EXCEPT !.color[r.pred] = r.c])
      [] At(r, 480, 1) -> \* pred.left = n
           Deref(r.pred, r, t,
                 Ok([r EXCEPT !.pc = L("doDelete", 481, 1)], [t EXCEPT !.left[r.pred] = r.n]))
      [] At(r, 481, 1) -> \* pred.right = n.right: n.right
           Deref(r.n, r, t,
                 Ok([r EXCEPT !.a = t.right[r.n], !.pc = L("doDelete", 481, 2)], t))
      [] At(r, 481, 2) -> \* pred.right = n.right: the write
           Deref(r.pred, r, t,
                 Ok([r EXCEPT !.pc = L("doDelete", 482, 1)], [t EXCEPT !.right[r.pred] = r.a]))
      [] At(r, 482, 1) -> \* if pred.right != nil
           Deref(r.pred, r, t,
                 Ok([r EXCEPT !.pc = IF t.right[r.pred] # nil THEN L("doDelete", 483, 1)
                                      ELSE L("doDelete", 492, 1)], t))
      [] At(r, 483, 1) -> \* pred.right.parent = pred: pred.right
           Deref(r.pred, r, t,
                 Ok([r EXCEPT !.a = t.right[r.pred], !.pc = L("doDelete", 483, 2)], t))
      [] At(r, 483, 2) -> \* pred.right.parent = pred: the write
           Deref(r.a, r, t,
                 Ok([r EXCEPT !.pc = L("doDelete", 492, 1)], [t EXCEPT !.parent[r.a] = r.pred]))
      [] At(r, 486, 1) -> \* pred.left = n.left: n.left
           Deref(r.n, r, t,
                 Ok([r EXCEPT !.a = t.left[r.n], !.pc = L("doDelete", 486, 2)], t))
      [] At(r, 486, 2) -> \* pred.left = n.left: the write
           Deref(r.pred, r, t,
                 Ok([r EXCEPT !.pc = L("doDelete", 487, 1)], [t EXCEPT !.left[r.pred] = r.a]))
      [] At(r, 487, 1) -> \* if pred.left != nil
           Deref(r.pred, r, t,
                 Ok([r EXCEPT !.pc = IF t.left[r.pred] # nil THEN L("doDelete", 488, 1)
                                      ELSE L("doDelete", 490, 1)], t))
      [] At(r, 488, 1) -> \* pred.left.parent = pred: pred.left
           Deref(r.pred, r, t,
                 Ok([r EXCEPT !.a = t.left[r.pred], !.pc = L("doDelete", 488, 2)], t))
      [] At(r, 488, 2) -> \* pred.left.parent = pred: the write
           Deref(r.a, r, t,
                 Ok([r EXCEPT !.pc = L("doDelete", 490, 1)], [t EXCEPT !.parent[r.a] = r.pred]))
      [] At(r, 490, 1) -> \* pred.right = n
           Deref(r.pred, r, t,
                 Ok([r EXCEPT !.pc = L("doDelete", 492, 1)], [t EXCEPT !.right[r.pred] = r.n]))
      [] At(r, 492, 1) -> \* n.item = tmp.item
           Deref(r.n, r, t,
                 Ok([r EXCEPT !.pc = L("doDelete", 493, 1)], [t EXCEPT !.item[r.n] = r.ti]))
      [] At(r, 493, 1) -> \* n.parent = pred
           Deref(r.n, r, t,
                 Ok([r EXCEPT !.pc = L("doDelete", 495, 1)], [t EXCEPT !.parent[r.n] = r.pred]))
      [] At(r, 495, 1) -> \* n.left = tmp.left
           Deref(r.n, r, t,
                 Ok([r EXCEPT !.pc = L("doDelete", 496, 1)], [t EXCEPT !.left[r.n] = r.tl]))
      [] At(r, 496, 1) -> \* if n.left != nil
           Deref(r.n, r, t,
                 Ok([r EXCEPT !.pc = IF t.left[r.n] # nil THEN L("doDelete", 497, 1)
                                      ELSE L("doDelete", 499, 1)], t))
      [] At(r, 497, 1) -> \* n.left.parent = n: n.left
           Deref(r.n, r, t,
                 Ok([r EXCEPT !.a = t.left[r.n], !.pc = L("doDelete", 497, 2)], t))
      [] At(r, 497, 2) -> \* n.left.parent = n: the write
           Deref(r.a, r, t,
                 Ok([r EXCEPT !.pc = L("doDelete", 499, 1)], [t EXCEPT !.parent[r.a] = r.n]))
      [] At(r, 499, 1) -> \* n.right = tmp.right
           Deref(r.n, r, t,
                 Ok([r EXCEPT !.pc = L("doDelete", 500, 1)], [t EXCEPT !.right[r.n] = r.tr]))
      [] At(r, 500, 1) -> \* if n.right != nil
           Deref(r.n, r, t,
                 Ok([r EXCEPT !.pc = IF t.right[r.n] # nil THEN L("doDelete", 501, 1)
                                      ELSE L("doDelete", 528, 1)], t))
      [] At(r, 501, 1) -> \* n.right.parent = n: n.right
           Deref(r.n, r, t,
                 Ok([r EXCEPT !.a = t.right[r.n], !.pc = L("doDelete", 501, 2)], t))
      [] At(r, 501, 2) -> \* n.right.parent = n: the write
           Deref(r.a, r, t,
                 Ok([r EXCEPT !.pc = L("doDelete", 528, 1)], [t EXCEPT !.parent[r.a] = r.n]))
      [] At(r, 504, 1) -> \* pred.left = n.left: n.left
           Deref(r.n, r, t,
                 Ok([r EXCEPT !.a = t.left[r.n], !.pc = L("doDelete", 504, 2)], t))
      [] At(r, 504, 2) -> \* pred.left = n.left: the write
           Deref(r.pred, r, t,
                 Ok([r EXCEPT !.pc = L("doDelete", 505, 1)], [t EXCEPT !.left[r.pred] = r.a]))
      [] At(r, 505, 1) -> \* if pred.left != nil
           Deref(r.pred, r, t,
                 Ok([r EXCEPT !.pc = IF t.left[r.pred] # nil THEN L("doDelete", 506, 1)
                                      ELSE L("doDelete", 508, 1)], t))
      [] At(r, 506, 1) -> \* pred.left.parent = pred: pred.left
           Deref(r.pred, r, t,
                 Ok([r EXCEPT !.a = t.left[r.pred], !.pc = L("doDelete", 506, 2)], t))
      [] At(r, 506, 2) -> \* pred.left.parent = pred: the write
           Deref(r.a, r, t,
                 Ok([r EXCEPT !.pc = L("doDelete", 508, 1)], [t EXCEPT !.parent[r.a] = r.pred]))
      [] At(r, 508, 1) -> \* pred.right = n.right: n.right
           Deref(r.n, r, t,
                 Ok([r EXCEPT !.a = t.right[r.n], !.pc = L("doDelete", 508, 2)], t))
      [] At(r, 508, 2) -> \* pred.right = n.right: the write
           Deref(r.pred, r, t,
                 Ok([r EXCEPT !.pc = L("doDelete", 509, 1)], [t EXCEPT !.right[r.pred] = r.a]))
      [] At(r, 509, 1) -> \* if pred.right != nil; if isLeft
           Deref(r.pred, r, t,
                 Ok([r EXCEPT !.pc = IF t.right[r.pred] # nil THEN L("doDelete", 510, 1)
                                      ELSE (IF r.isLeft THEN L("doDelete", 513, 1) ELSE L("doDelete", 515, 1))], t))
      [] At(r, 510, 1) -> \* pred.right.parent = pred: pred.right
           Deref(r.pred, r, t,
                 Ok([r EXCEPT !.a = t.right[r.pred], !.pc = L("doDelete", 510, 2)], t))
      [] At(r, 510, 2) -> \* pred.right.parent = pred: the write; if isLeft
           Deref(r.a, r, t,
                 Ok([r EXCEPT !.pc = IF r.isLeft THEN L("doDelete", 513, 1) ELSE L("doDelete", 515, 1)],
                    [t EXCEPT !.parent[r.a] = r.pred]))
      [] At(r, 513, 1) -> \* tmp.parent.left = n
           Deref(r.tp, r, t,
                 Ok([r EXCEPT !.pc = L("doDelete", 517, 1)], [t EXCEPT !.left[r.tp] = r.n]))
      [] At(r, 515, 1) -> \* tmp.parent.right = n
           Deref(r.tp, r, t,
                 Ok([r EXCEPT !.pc = L("doDelete", 517, 1)], [t EXCEPT !.right[r.tp] = r.n]))
      [] At(r, 517, 1) -> \* n.item = tmp.item
           Deref(r.n, r, t,
                 Ok([r EXCEPT !.pc = L("doDelete", 518, 1)], [t EXCEPT !.item[r.n] = r.ti]))
      [] At(r, 518, 1) -> \* n.parent = tmp.parent
           Deref(r.n, r, t,
                 Ok([r EXCEPT !.pc = L("doDelete", 519, 1)], [t EXCEPT !.parent[r.n] = r.tp]))
      [] At(r, 519, 1) -> \* n.left = tmp.left
           Deref(r.n, r, t,
                 Ok([r EXCEPT !.pc = L("doDelete", 520, 1)], [t EXCEPT !.left[r.n] = r.tl]))
      [] At(r, 520, 1) -> \* if n.left != nil
           Deref(r.n, r, t,
                 Ok([r EXCEPT !.pc = IF t.left[r.n] # nil THEN L("doDelete", 521, 1)
                                      ELSE L("doDelete", 523, 1)], t))
      [] At(r, 521, 1) -> \* n.left.parent = n: n.left
           Deref(r.n, r, t,
                 Ok([r EXCEPT !.a = t.left[r.n], !.pc = L("doDelete", 521, 2)], t))
      [] At(r, 521, 2) -> \* n.left.parent = n: the write
           Deref(r.a, r, t,
                 Ok([r EXCEPT !.pc = L("doDelete", 523, 1)], [t EXCEPT !.parent[r.a] = r.n]))
      [] At(r, 523, 1) -> \* n.right = tmp.right
           Deref(r.n, r, t,
                 Ok([r EXCEPT !.pc = L("doDelete", 524, 1)], [t EXCEPT !.right[r.n] = r.tr]))
      [] At(r, 524, 1) -> \* if n.right != nil
           Deref(r.n, r, t,
                 Ok([r EXCEPT !.pc = IF t.right[r.n] # nil THEN L("doDelete", 525, 1)
                                      ELSE L("doDelete", 528, 1)], t))
      [] At(r, 525, 1) -> \* n.right.parent = n: n.right
           Deref(r.n, r, t,
                 Ok([r EXCEPT !.a = t.right[r.n], !.pc = L("doDelete", 525, 2)], t))
      [] At(r, 525, 2) -> \* n.right.parent = n: the write
           Deref(r.a, r, t,
                 Ok([r EXCEPT !.pc = L("doDelete", 528, 1)], [t EXCEPT !.parent[r.a] = r.n]))
      [] At(r, 528, 1) -> \* n.color = tmp.color
           Deref(r.n, r, t,
                 Ok([r EXCEPT !.pred = nil, !.isLeft = FALSE, !.ti = NoItem, !.tp = nil, !.tl = nil, !.tr = nil, !.tc = red, !.pc = L("doDelete", 531, 1)], [t EXCEPT !.color[r.n] = r.tc]))
      [] At(r, 531, 1) -> \* doAssert(n.left == nil ||
           Deref(r.n, r, t,
                 Ok([r EXCEPT !.pc = IF t.left[r.n] = nil THEN L("doDelete", 532, 1)
                                      ELSE L("doDelete", 531, 2)], t))
      [] At(r, 531, 2) -> \* n.right == nil)
           IF doAssert(t.right[r.n] = nil) THEN Ok([r EXCEPT !.pc = L("doDelete", 532, 1)], t)
           ELSE Crash(r, t)
      [] At(r, 532, 1) -> \* child := n.right; if child == nil
           Ok([r EXCEPT !.child = t.right[r.n], !.pc = IF t.right[r.n] = nil THEN L("doDelete", 534, 1) ELSE L("doDelete", 536, 1)], t)
      [] At(r, 534, 1) -> \* child = n.left
           Deref(r.n, r, t,
                 Ok([r EXCEPT !.child = t.left[r.n], !.pc = L("doDelete", 536, 1)], t))
      [] At(r, 536, 1) -> \* if n.color == black; else root.replaceNode(n, child)
           IF t.color[r.n] = black THEN Ok([r EXCEPT !.pc = L("doDelete", 537, 1)], t)
           ELSE Ok(Enter([r EXCEPT !.oldn = r.n, !.newn = r.child],
                    L("replaceNode", 632, 1), L("doDelete", 541, 1)), t)
      [] At(r, 537, 1) -> \* n.color = getColor(child): child.color, or the write when child is nil
           IF r.child # nil THEN Ok([r EXCEPT !.c = t.color[r.child], !.pc = L("doDelete", 537, 2)], t)
           ELSE Ok(Enter([r EXCEPT !.d = r.n], L("deleteCase1", 566, 1),
                    L("doDelete", 540, 0)),
                   [t EXCEPT !.color[r.n] = getColor(t, nil)])
      [] At(r, 537, 2) -> \* n.color = getColor(child): the write; root.deleteCase1(n)
           Ok(Enter([r EXCEPT !.d = r.n], L("deleteCase1", 566, 1),
                    L("doDelete", 540, 0)),
              [t EXCEPT !.color[r.n] = r.c])
      [] At(r, 540, 0) -> \* root.replaceNode(n, child)
           Ok(Enter([r EXCEPT !.oldn = r.n, !.newn = r.child],
                    L("replaceNode", 632, 1), L("doDelete", 541, 1)), t)
      [] At(r, 541, 1) -> \* if n.parent == nil && child != nil
           Ok([r EXCEPT !.pc = IF t.parent[r.n] = nil /\ r.child # nil THEN L("doDelete", 542, 1)
                                ELSE L("doDelete", 544, 1)], t)
      [] At(r, 542, 1) -> \* child.color = black
           Deref(r.child, r, t,
                 Ok([r EXCEPT !.pc = L("doDelete", 544, 1)], [t EXCEPT !.color[r.child] = black]))
      [] At(r, 544, 1) -> \* if root.count > 0
           IF t.count > 0 THEN Ok([r EXCEPT !.child = nil, !.pc = L("doDelete", 545, 1)], t)
           ELSE Ok(Leave([r EXCEPT !.n = nil, !.child = nil]), t)
      [] At(r, 545, 1) -> \* if root.minNode == nil
           IF t.minNode = nil THEN Ok([r EXCEPT !.pc = L("doDelete", 546, 1)], t)
           ELSE Ok([r EXCEPT !.pc = L("doDelete", 553, 1)], t)
      [] At(r, 546, 1) -> \* root.minNode = root.root: root.root
           Ok([r EXCEPT !.a = t.root, !.pc = L("doDelete", 546, 2)], t)
      [] At(r, 546, 2) -> \* root.minNode = root.root: the write
           Ok([r EXCEPT !.pc = L("doDelete", 547, 1)], [t EXCEPT !.minNode = r.a])
      [] At(r, 547, 1) -> \* if root.minNode != nil
           IF t.minNode # nil THEN Ok([r EXCEPT !.pc = L("doDelete", 548, 1)], t)
           ELSE Ok([r EXCEPT !.pc = L("doDelete", 553, 1)], t)
      [] At(r, 548, 1) -> \* for root.minNode.left != nil: root.minNode
           Ok([r EXCEPT !.a = t.minNode, !.pc = L("doDelete", 548, 2)], t)
      [] At(r, 548, 2) -> \* .left
           Deref(r.a, r, t,
                 IF t.left[r.a] # nil THEN Ok([r EXCEPT !.pc = L("doDelete", 549, 1)], t)
                 ELSE Ok([r EXCEPT !.pc = L("doDelete", 553, 1)], t))
      [] At(r, 549, 1) -> \* root.minNode = root.minNode.left: root.minNode
           Ok([r EXCEPT !.a = t.minNode, !.pc = L("doDelete", 549, 2)], t)
      [] At(r, 549, 2) -> \* .left
           Deref(r.a, r, t,
                 Ok([r EXCEPT !.a = t.left[r.a], !.pc = L("doDelete", 549, 3)], t))
      [] At(r, 549, 3) -> \* the write
           Ok([r EXCEPT !.pc = L("doDelete", 548, 1)], [t EXCEPT !.minNode = r.a])
      [] At(r, 553, 1) -> \* if root.maxNode == nil
           IF t.maxNode = nil THEN Ok([r EXCEPT !.pc = L("doDelete", 554, 1)], t)
           ELSE Ok(Leave([r EXCEPT !.n = nil]), t)
      [] At(r, 554, 1) -> \* root.maxNode = root.root: root.root
           Ok([r EXCEPT !.a = t.root, !.pc = L("doDelete", 554, 2)], t)
      [] At(r, 554, 2) -> \* root.maxNode = root.root: the write
           Ok([r EXCEPT !.pc = L("doDelete", 555, 1)], [t EXCEPT !.maxNode = r.a])
      [] At(r, 555, 1) -> \* if root.maxNode != nil
           IF t.maxNode # nil THEN Ok([r EXCEPT !.pc = L("doDelete", 556, 1)], t)
           ELSE Ok(Leave([r EXCEPT !.n = nil]), t)
      [] At(r, 556, 1) -> \* for root.maxNode.right != nil: root.maxNode
           Ok([r EXCEPT !.a = t.maxNode, !.pc = L("doDelete", 556, 2)], t)
      [] At(r, 556, 2) -> \* .right
           Deref(r.a, r, t,
                 IF t.right[r.a] # nil THEN Ok([r EXCEPT !.pc = L("doDelete", 557, 1)], t)
                 ELSE Ok(Leave([r EXCEPT !.n = nil]), t))
      [] At(r, 557, 1) -> \* root.maxNode = root.maxNode.right: root.maxNode
           Ok([r EXCEPT !.a = t.maxNode, !.pc = L("doDelete", 557, 2)], t)
      [] At(r, 557, 2) -> \* .right
           Deref(r.a, r, t,
                 Ok([r EXCEPT !.a = t.right[r.a], !.pc = L("doDelete", 557, 3)], t))
      [] At(r, 557, 3) -> \* the write
           Ok([r EXCEPT !.pc = L("doDelete", 556, 1)], [t EXCEPT !.maxNode = r.a])

\* func (root *Tree) deleteCase1(n *node): argument r.d
deleteCase1Code(r, t) ==
    CASE At(r, 566, 1) -> \* if n.parent != nil; else break
           Deref(r.d, r, t,
                 IF t.parent[r.d] # nil THEN Ok([r EXCEPT !.pc = L("deleteCase1", 567, 1)], t)
                 ELSE Ok(Leave([r EXCEPT !.d = nil]), t))
      [] At(r, 567, 1) -> \* if getColor(n.sibling()) == red: n.sibling()
           Ok(Enter([r EXCEPT !.sn = r.d],
                    L("sibling", 287, 1), L("deleteCase1", 567, 0)), t)
      [] At(r, 567, 0) ->
           IF r.rn = nil THEN Ok([r EXCEPT !.pc = IF getColor(t, nil) = red THEN L("deleteCase1", 568, 1)
                                ELSE L("deleteCase1", 576, 1)], t)
           ELSE Ok([r EXCEPT !.pc = L("deleteCase1", 567, 2)], t)
      [] At(r, 567, 2) -> \* .color
           Ok([r EXCEPT !.pc = IF t.color[r.rn] = red THEN L("deleteCase1", 568, 1)
                                ELSE L("deleteCase1", 576, 1)], t)
      [] At(r, 568, 1) -> \* n.parent.color = red: n.parent
           Deref(r.d, r, t,
                 Ok([r EXCEPT !.a = t.parent[r.d], !.pc = L("deleteCase1", 568, 2)], t))
      [] At(r, 568, 2) -> \* n.parent.color = red: the write
           Deref(r.a, r, t,
                 Ok([r EXCEPT !.pc = L("deleteCase1", 569, 1)], [t EXCEPT !.color[r.a] = red]))
      [] At(r, 569, 1) -> \* n.sibling().color = black: n.sibling()
           Ok(Enter([r EXCEPT !.sn = r.d],
                    L("sibling", 287, 1), L("deleteCase1", 569, 2)), t)
      [] At(r, 569, 2) -> \* n.sibling().color = black: the write
           Deref(r.rn, r, t,
                 Ok([r EXCEPT !.pc = L("deleteCase1", 570, 1)], [t EXCEPT !.color[r.rn] = black]))
      [] At(r, 570, 1) -> \* if n == n.parent.left: n.parent
           Deref(r.d, r, t,
                 Ok([r EXCEPT !.a = t.parent[r.d], !.pc = L("deleteCase1", 570, 2)], t))
      [] At(r, 570, 2) -> \* .left
           Deref(r.a, r, t,
                 Ok([r EXCEPT !.pc = IF r.d = t.left[r.a] THEN L("deleteCase1", 571, 1)
                                      ELSE L("deleteCase1", 573, 1)], t))
      [] At(r, 571, 1) -> \* root.rotateLeft(n.parent): n.parent
           Deref(r.d, r, t,
                 Ok(Enter([r EXCEPT !.x = t.parent[r.d]],
                          L("rotateLeft", 652, 1), L("deleteCase1", 576, 1)), t))
      [] At(r, 573, 1) -> \* root.rotateRight(n.parent): n.parent
           Deref(r.d, r, t,
                 Ok(Enter([r EXCEPT !.y = t.parent[r.d]],
                          L("rotateRight", 677, 1), L("deleteCase1", 576, 1)), t))
      [] At(r, 576, 1) -> \* if getColor(n.parent) == black: n.parent
           Deref(r.d, r, t,
                 IF t.parent[r.d] = nil THEN Ok([r EXCEPT !.pc = IF getColor(t, nil) = black THEN L("deleteCase1", 577, 1)
                                      ELSE L("deleteCase1", 585, 1)], t)
                 ELSE Ok([r EXCEPT !.a = t.parent[r.d], !.pc = L("deleteCase1", 576, 2)], t))
      [] At(r, 576, 2) -> \* .color
           Ok([r EXCEPT !.pc = IF t.color[r.a] = black THEN L("deleteCase1", 577, 1)
                                ELSE L("deleteCase1", 585, 1)], t)
      [] At(r, 577, 1) -> \* && getColor(n.sibling()) == black: n.sibling()
           Ok(Enter([r EXCEPT !.sn = r.d],
                    L("sibling", 287, 1), L("deleteCase1", 577, 0)), t)
      [] At(r, 577, 0) ->
           IF r.rn = nil THEN Ok([r EXCEPT !.pc = IF getColor(t, nil) = black THEN L("deleteCase1", 578, 1)
                                ELSE L("deleteCase1", 585, 1)], t)
           ELSE Ok([r EXCEPT !.pc = L("deleteCase1", 577, 2)], t)
      [] At(r, 577, 2) -> \* .color
           Ok([r EXCEPT !.pc = IF t.color[r.rn] = black THEN L("deleteCase1", 578, 1)
                                ELSE L("deleteCase1", 585, 1)], t)
      [] At(r, 578, 1) -> \* && getColor(n.sibling().left) == black: n.sibling()
           Ok(Enter([r EXCEPT !.sn = r.d],
                    L("sibling", 287, 1), L("deleteCase1", 578, 2)), t)
      [] At(r, 578, 2) -> \* .left
           Deref(r.rn, r, t,
                 IF t.left[r.rn] = nil THEN Ok([r EXCEPT !.pc = IF getColor(t, nil) = black THEN L("deleteCase1", 579, 1)
                                      ELSE L("deleteCase1", 585, 1)], t)
                 ELSE Ok([r EXCEPT !.a = t.left[r.rn], !.pc = L("deleteCase1", 578, 3)], t))
      [] At(r, 578, 3) -> \* .color
           Ok([r EXCEPT !.pc = IF t.color[r.a] = black THEN L("deleteCase1", 579, 1)
                                ELSE L("deleteCase1", 585, 1)], t)
      [] At(r, 579, 1) -> \* && getColor(n.sibling().right) == black: n.sibling()
           Ok(Enter([r EXCEPT !.sn = r.d],
                    L("sibling", 287, 1), L("deleteCase1", 579, 2)), t)
      [] At(r, 579, 2) -> \* .right
           Deref(r.rn, r, t,
                 IF t.right[r.rn] = nil THEN Ok([r EXCEPT !.pc = IF getColor(t, nil) = black THEN L("deleteCase1", 580, 1)
                                      ELSE L("deleteCase1", 585, 1)], t)
                 ELSE Ok([r EXCEPT !.a = t.right[r.rn], !.pc = L("deleteCase1", 579, 3)], t))
      [] At(r, 579, 3) -> \* .color
           Ok([r EXCEPT !.pc = IF t.color[r.a] = black THEN L("deleteCase1", 580, 1)
                                ELSE L("deleteCase1", 585, 1)], t)
      [] At(r, 580, 1) -> \* n.sibling().color = red: n.sibling()
           Ok(Enter([r EXCEPT !.sn = r.d],
                    L("sibling", 287, 1), L("deleteCase1", 580, 2)), t)
      [] At(r, 580, 2) -> \* n.sibling().color = red: the write
           Deref(r.rn, r, t,
                 Ok([r EXCEPT !.pc = L("deleteCase1", 581, 1)], [t EXCEPT !.color[r.rn] = red]))
      [] At(r, 581, 1) -> \* n = n.parent; continue
           Deref(r.d, r, t,
                 Ok([r EXCEPT !.d = t.parent[r.d], !.pc = L("deleteCase1", 566, 1)], t))
      [] At(r, 585, 1) -> \* if getColor(n.parent) == red: n.parent
           Deref(r.d, r, t,
                 IF t.parent[r.d] = nil THEN Ok([r EXCEPT !.pc = IF getColor(t, nil) = red THEN L("deleteCase1", 586, 1)
                                      ELSE L("deleteCase1", 592, 0)], t)
                 ELSE Ok([r EXCEPT !.a = t.parent[r.d], !.pc = L("deleteCase1", 585, 2)], t))
      [] At(r, 585, 2) -> \* .color
           Ok([r EXCEPT !.pc = IF t.color[r.a] = red THEN L("deleteCase1", 586, 1)
                                ELSE L("deleteCase1", 592, 0)], t)
      [] At(r, 586, 1) -> \* && getColor(n.sibling()) == black: n.sibling()
           Ok(Enter([r EXCEPT !.sn = r.d],
                    L("sibling", 287, 1), L("deleteCase1", 586, 0)), t)
      [] At(r, 586, 0) ->
           IF r.rn = nil THEN Ok([r EXCEPT !.pc = IF getColor(t, nil) = black THEN L("deleteCase1", 587, 1)
                                ELSE L("deleteCase1", 592, 0)], t)
           ELSE Ok([r EXCEPT !.pc = L("deleteCase1", 586, 2)], t)
      [] At(r, 586, 2) -> \* .color
           Ok([r EXCEPT !.pc = IF t.color[r.rn] = black THEN L("deleteCase1", 587, 1)
                                ELSE L("deleteCase1", 592, 0)], t)
      [] At(r, 587, 1) -> \* && getColor(n.sibling().left) == black: n.sibling()
           Ok(Enter([r EXCEPT !.sn = r.d],
                    L("sibling", 287, 1), L("deleteCase1", 587, 2)), t)
      [] At(r, 587, 2) -> \* .left
           Deref(r.rn, r, t,
                 IF t.left[r.rn] = nil THEN Ok([r EXCEPT !.pc = IF getColor(t, nil) = black THEN L("deleteCase1", 588, 1)
                                      ELSE L("deleteCase1", 592, 0)], t)
                 ELSE Ok([r EXCEPT !.a = t.left[r.rn], !.pc = L("deleteCase1", 587, 3)], t))
      [] At(r, 587, 3) -> \* .color
           Ok([r EXCEPT !.pc = IF t.color[r.a] = black THEN L("deleteCase1", 588, 1)
                                ELSE L("deleteCase1", 592, 0)], t)
      [] At(r, 588, 1) -> \* && getColor(n.sibling().right) == black: n.sibling()
           Ok(Enter([r EXCEPT !.sn = r.d],
                    L("sibling", 287, 1), L("deleteCase1", 588, 2)), t)
      [] At(r, 588, 2) -> \* .right
           Deref(r.rn, r, t,
                 IF t.right[r.rn] = nil THEN Ok([r EXCEPT !.pc = IF getColor(t, nil) = black THEN L("deleteCase1", 589, 1)
                                      ELSE L("deleteCase1", 592, 0)], t)
                 ELSE Ok([r EXCEPT !.a = t.right[r.rn], !.pc = L("deleteCase1", 588, 3)], t))
      [] At(r, 588, 3) -> \* .color
           Ok([r EXCEPT !.pc = IF t.color[r.a] = black THEN L("deleteCase1", 589, 1)
                                ELSE L("deleteCase1", 592, 0)], t)
      [] At(r, 589, 1) -> \* n.sibling().color = red: n.sibling()
           Ok(Enter([r EXCEPT !.sn = r.d],
                    L("sibling", 287, 1), L("deleteCase1", 589, 2)), t)
      [] At(r, 589, 2) -> \* n.sibling().color = red: the write
           Deref(r.rn, r, t,
                 Ok([r EXCEPT !.pc = L("deleteCase1", 590, 1)], [t EXCEPT !.color[r.rn] = red]))
      [] At(r, 590, 1) -> \* n.parent.color = black: n.parent
           Deref(r.d, r, t,
                 Ok([r EXCEPT !.a = t.parent[r.d], !.pc = L("deleteCase1", 590, 2)], t))
      [] At(r, 590, 2) -> \* n.parent.color = black: the write
           Deref(r.a, r, t,
                 Ok(Leave([r EXCEPT !.d = nil]), [t EXCEPT !.color[r.a] = black]))
      [] At(r, 592, 0) -> \* root.deleteCase5(n)
           Ok(Enter(r, L("deleteCase5", 601, 1), L("deleteCase1", 596, 0)), t)
      [] At(r, 596, 0) -> \* break
           Ok(Leave([r EXCEPT !.d = nil]), t)

\* func (root *Tree) deleteCase5(n *node): argument r.d
deleteCase5Code(r, t) ==
    CASE At(r, 601, 1) -> \* if n == n.parent.left: n.parent
           Deref(r.d, r, t,
                 Ok([r EXCEPT !.a = t.parent[r.d], !.pc = L("deleteCase5", 601, 2)], t))
      [] At(r, 601, 2) -> \* .left
           Deref(r.a, r, t,
                 Ok([r EXCEPT !.pc = IF r.d = t.left[r.a] THEN L("deleteCase5", 602, 1)
                                      ELSE L("deleteCase5", 608, 1)], t))
      [] At(r, 602, 1) -> \* && getColor(n.sibling()) == black: n.sibling()
           Ok(Enter([r EXCEPT !.sn = r.d],
                    L("sibling", 287, 1), L("deleteCase5", 602, 0)), t)
      [] At(r, 602, 0) ->
           IF r.rn = nil THEN Ok([r EXCEPT !.pc = IF getColor(t, nil) = black THEN L("deleteCase5", 603, 1)
                                ELSE L("deleteCase5", 608, 1)], t)
           ELSE Ok([r EXCEPT !.pc = L("deleteCase5", 602, 2)], t)
      [] At(r, 602, 2) -> \* .color
           Ok([r EXCEPT !.pc = IF t.color[r.rn] = black THEN L("deleteCase5", 603, 1)
                                ELSE L("deleteCase5", 608, 1)], t)
      [] At(r, 603, 1) -> \* && getColor(n.sibling().left) == red: n.sibling()
           Ok(Enter([r EXCEPT !.sn = r.d],
                    L("sibling", 287, 1), L("deleteCase5", 603, 2)), t)
      [] At(r, 603, 2) -> \* .left
           Deref(r.rn, r, t,
                 IF t.left[r.rn] = nil THEN Ok([r EXCEPT !.pc = IF getColor(t, nil) = red THEN L("deleteCase5", 604, 1)
                                      ELSE L("deleteCase5", 608, 1)], t)
                 ELSE Ok([r EXCEPT !.a = t.left[r.rn], !.pc = L("deleteCase5", 603, 3)], t))
      [] At(r, 603, 3) -> \* .color
           Ok([r EXCEPT !.pc = IF t.color[r.a] = red THEN L("deleteCase5", 604, 1)
                                ELSE L("deleteCase5", 608, 1)], t)
      [] At(r, 604, 1) -> \* && getColor(n.sibling().right) == black: n.sibling()
           Ok(Enter([r EXCEPT !.sn = r.d],
                    L("sibling", 287, 1), L("deleteCase5", 604, 2)), t)
      [] At(r, 604, 2) -> \* .right
           Deref(r.rn, r, t,
                 IF t.right[r.rn] = nil THEN Ok([r EXCEPT !.pc = IF getColor(t, nil) = black THEN L("deleteCase5", 605, 1)
                                      ELSE L("deleteCase5", 608, 1)], t)
                 ELSE Ok([r EXCEPT !.a = t.right[r.rn], !.pc = L("deleteCase5", 604, 3)], t))
      [] At(r, 604, 3) -> \* .color
           Ok([r EXCEPT !.pc = IF t.color[r.a] = black THEN L("deleteCase5", 605, 1)
                                ELSE L("deleteCase5", 608, 1)], t)
      [] At(r, 605, 1) -> \* n.sibling().color = red: n.sibling()
           Ok(Enter([r EXCEPT !.sn = r.d],
                    L("sibling", 287, 1), L("deleteCase5", 605, 2)), t)
      [] At(r, 605, 2) -> \* n.sibling().color = red: the write
           Deref(r.rn, r, t,
                 Ok([r EXCEPT !.pc = L("deleteCase5", 606, 1)], [t EXCEPT !.color[r.rn] = red]))
      [] At(r, 606, 1) -> \* n.sibling().left.color = black: n.sibling()
           Ok(Enter([r EXCEPT !.sn = r.d],
                    L("sibling", 287, 1), L("deleteCase5", 606, 2)), t)
      [] At(r, 606, 2) -> \* .left
           Deref(r.rn, r, t,
                 Ok([r EXCEPT !.a = t.left[r.rn], !.pc = L("deleteCase5", 606, 3)], t))
      [] At(r, 606, 3) -> \* the write
           Deref(r.a, r, t,
                 Ok([r EXCEPT !.pc = L("deleteCase5", 607, 1)], [t EXCEPT !.color[r.a] = black]))
      [] At(r, 607, 1) -> \* root.rotateRight(n.sibling()): n.sibling()
           Ok(Enter([r EXCEPT !.sn = r.d],
                    L("sibling", 287, 1), L("deleteCase5", 607, 0)), t)
      [] At(r, 607, 0) ->
           Ok(Enter([r EXCEPT !.y = r.rn],
                    L("rotateRight", 677, 1), L("deleteCase5", 618, 1)), t)
      [] At(r, 608, 1) -> \* } else if n == n.parent.right: n.parent
           Deref(r.d, r, t,
                 Ok([r EXCEPT !.a = t.parent[r.d], !.pc = L("deleteCase5", 608, 2)], t))
      [] At(r, 608, 2) -> \* .right
           Deref(r.a, r, t,
                 Ok([r EXCEPT !.pc = IF r.d = t.right[r.a] THEN L("deleteCase5", 609, 1)
                                      ELSE L("deleteCase5", 618, 1)], t))
      [] At(r, 609, 1) -> \* && getColor(n.sibling()) == black: n.sibling()
           Ok(Enter([r EXCEPT !.sn = r.d],
                    L("sibling", 287, 1), L("deleteCase5", 609, 0)), t)
      [] At(r, 609, 0) ->
           IF r.rn = nil THEN Ok([r EXCEPT !.pc = IF getColor(t, nil) = black THEN L("deleteCase5", 610, 1)
                                ELSE L("deleteCase5", 618, 1)], t)
           ELSE Ok([r EXCEPT !.pc = L("deleteCase5", 609, 2)], t)
      [] At(r, 609, 2) -> \* .color
           Ok([r EXCEPT !.pc = IF t.color[r.rn] = black THEN L("deleteCase5", 610, 1)
                                ELSE L("deleteCase5", 618, 1)], t)
      [] At(r, 610, 1) -> \* && getColor(n.sibling().right) == red: n.sibling()
           Ok(Enter([r EXCEPT !.sn = r.d],
                    L("sibling", 287, 1), L("deleteCase5", 610, 2)), t)
      [] At(r, 610, 2) -> \* .right
           Deref(r.rn, r, t,
                 IF t.right[r.rn] = nil THEN Ok([r EXCEPT !.pc = IF getColor(t, nil) = red THEN L("deleteCase5", 611, 1)
                                      ELSE L("deleteCase5", 618, 1)], t)
                 ELSE Ok([r EXCEPT !.a = t.right[r.rn], !.pc = L("deleteCase5", 610, 3)], t))
      [] At(r, 610, 3) -> \* .color
           Ok([r EXCEPT !.pc = IF t.color[r.a] = red THEN L("deleteCase5", 611, 1)
                                ELSE L("deleteCase5", 618, 1)], t)
      [] At(r, 611, 1) -> \* && getColor(n.sibling().left) == black: n.sibling()
           Ok(Enter([r EXCEPT !.sn = r.d],
                    L("sibling", 287, 1), L("deleteCase5", 611, 2)), t)
      [] At(r, 611, 2) -> \* .left
           Deref(r.rn, r, t,
                 IF t.left[r.rn] = nil THEN Ok([r EXCEPT !.pc = IF getColor(t, nil) = black THEN L("deleteCase5", 612, 1)
                                      ELSE L("deleteCase5", 618, 1)], t)
                 ELSE Ok([r EXCEPT !.a = t.left[r.rn], !.pc = L("deleteCase5", 611, 3)], t))
      [] At(r, 611, 3) -> \* .color
           Ok([r EXCEPT !.pc = IF t.color[r.a] = black THEN L("deleteCase5", 612, 1)
                                ELSE L("deleteCase5", 618, 1)], t)
      [] At(r, 612, 1) -> \* n.sibling().color = red: n.sibling()
           Ok(Enter([r EXCEPT !.sn = r.d],
                    L("sibling", 287, 1), L("deleteCase5", 612, 2)), t)
      [] At(r, 612, 2) -> \* n.sibling().color = red: the write
           Deref(r.rn, r, t,
                 Ok([r EXCEPT !.pc = L("deleteCase5", 613, 1)], [t EXCEPT !.color[r.rn] = red]))
      [] At(r, 613, 1) -> \* n.sibling().right.color = black: n.sibling()
           Ok(Enter([r EXCEPT !.sn = r.d],
                    L("sibling", 287, 1), L("deleteCase5", 613, 2)), t)
      [] At(r, 613, 2) -> \* .right
           Deref(r.rn, r, t,
                 Ok([r EXCEPT !.a = t.right[r.rn], !.pc = L("deleteCase5", 613, 3)], t))
      [] At(r, 613, 3) -> \* the write
           Deref(r.a, r, t,
                 Ok([r EXCEPT !.pc = L("deleteCase5", 614, 1)], [t EXCEPT !.color[r.a] = black]))
      [] At(r, 614, 1) -> \* root.rotateLeft(n.sibling()): n.sibling()
           Ok(Enter([r EXCEPT !.sn = r.d],
                    L("sibling", 287, 1), L("deleteCase5", 614, 0)), t)
      [] At(r, 614, 0) ->
           Ok(Enter([r EXCEPT !.x = r.rn],
                    L("rotateLeft", 652, 1), L("deleteCase5", 618, 1)), t)
      [] At(r, 618, 1) -> \* n.sibling().color = getColor(n.parent): n.sibling()
           Ok(Enter([r EXCEPT !.sn = r.d],
                    L("sibling", 287, 1), L("deleteCase5", 618, 2)), t)
      [] At(r, 618, 2) -> \* n.parent
           Deref(r.d, r, t,
                 IF t.parent[r.d] = nil THEN Ok([r EXCEPT !.c = getColor(t, nil), !.pc = L("deleteCase5", 618, 4)], t)
                 ELSE Ok([r EXCEPT !.a = t.parent[r.d], !.pc = L("deleteCase5", 618, 3)], t))
      [] At(r, 618, 3) -> \* .color
           Ok([r EXCEPT !.c = t.color[r.a], !.pc = L("deleteCase5", 618, 4)], t)
      [] At(r, 618, 4) -> \* the write
           Deref(r.rn, r, t,
                 Ok([r EXCEPT !.pc = L("deleteCase5", 619, 1)], [t EXCEPT !.color[r.rn] = r.c]))
      [] At(r, 619, 1) -> \* n.parent.color = black: n.parent
           Deref(r.d, r, t,
                 Ok([r EXCEPT !.a = t.parent[r.d], !.pc = L("deleteCase5", 619, 2)], t))
      [] At(r, 619, 2) -> \* n.parent.color = black: the write
           Deref(r.a, r, t,
                 Ok([r EXCEPT !.pc = L("deleteCase5", 620, 1)], [t EXCEPT !.color[r.a] = black]))
      [] At(r, 620, 1) -> \* if n == n.parent.left: n.parent
           Deref(r.d, r, t,
                 Ok([r EXCEPT !.a = t.parent[r.d], !.pc = L("deleteCase5", 620, 2)], t))
      [] At(r, 620, 2) -> \* .left
           Deref(r.a, r, t,
                 Ok([r EXCEPT !.pc = IF r.d = t.left[r.a] THEN L("deleteCase5", 621, 1)
                                      ELSE L("deleteCase5", 625, 1)], t))
      [] At(r, 621, 1) -> \* doAssert(getColor(n.sibling().right) == red): n.sibling()
           Ok(Enter([r EXCEPT !.sn = r.d],
                    L("sibling", 287, 1), L("deleteCase5", 621, 2)), t)
      [] At(r, 621, 2) -> \* .right
           Deref(r.rn, r, t,
                 IF t.right[r.rn] = nil
                 THEN (IF doAssert(getColor(t, nil) = red) THEN Ok([r EXCEPT !.pc = L("deleteCase5", 622, 1)], t) ELSE Crash(r, t))
                 ELSE Ok([r EXCEPT !.a = t.right[r.rn], !.pc = L("deleteCase5", 621, 3)], t))
      [] At(r, 621, 3) -> \* .color
           IF doAssert(t.color[r.a] = red) THEN Ok([r EXCEPT !.pc = L("deleteCase5", 622, 1)], t)
           ELSE Crash(r, t)
      [] At(r, 622, 1) -> \* n.sibling().right.color = black: n.sibling()
           Ok(Enter([r EXCEPT !.sn = r.d],
                    L("sibling", 287, 1), L("deleteCase5", 622, 2)), t)
      [] At(r, 622, 2) -> \* .right
           Deref(r.rn, r, t,
                 Ok([r EXCEPT !.a = t.right[r.rn], !.pc = L("deleteCase5", 622, 3)], t))
      [] At(r, 622, 3) -> \* the write
           Deref(r.a, r, t,
                 Ok([r EXCEPT !.pc = L("deleteCase5", 623, 1)], [t EXCEPT !.color[r.a] = black]))
      [] At(r, 623, 1) -> \* root.rotateLeft(n.parent): n.parent
           Deref(r.d, r, t,
                 Ok(Enter([r EXCEPT !.x = t.parent[r.d]],
                          L("rotateLeft", 652, 1), L("deleteCase5", 629, 0)), t))
      [] At(r, 625, 1) -> \* doAssert(getColor(n.sibling().left) == red): n.sibling()
           Ok(Enter([r EXCEPT !.sn = r.d],
                    L("sibling", 287, 1), L("deleteCase5", 625, 2)), t)
      [] At(r, 625, 2) -> \* .left
           Deref(r.rn, r, t,
                 IF t.left[r.rn] = nil
                 THEN (IF doAssert(getColor(t, nil) = red) THEN Ok([r EXCEPT !.pc = L("deleteCase5", 626, 1)], t) ELSE Crash(r, t))
                 ELSE Ok([r EXCEPT !.a = t.left[r.rn], !.pc = L("deleteCase5", 625, 3)], t))
      [] At(r, 625, 3) -> \* .color
           IF doAssert(t.color[r.a] = red) THEN Ok([r EXCEPT !.pc = L("deleteCase5", 626, 1)], t)
           ELSE Crash(r, t)
      [] At(r, 626, 1) -> \* n.sibling().left.color = black: n.sibling()
           Ok(Enter([r EXCEPT !.sn = r.d],
                    L("sibling", 287, 1), L("deleteCase5", 626, 2)), t)
      [] At(r, 626, 2) -> \* .left
           Deref(r.rn, r, t,
                 Ok([r EXCEPT !.a = t.left[r.rn], !.pc = L("deleteCase5", 626, 3)], t))
      [] At(r, 626, 3) -> \* the write
           Deref(r.a, r, t,
                 Ok([r EXCEPT !.pc = L("deleteCase5", 627, 1)], [t EXCEPT !.color[r.a] = black]))
      [] At(r, 627, 1) -> \* root.rotateRight(n.parent): n.parent
           Deref(r.d, r, t,
                 Ok(Enter([r EXCEPT !.y = t.parent[r.d]],
                          L("rotateRight", 677, 1), L("deleteCase5", 629, 0)), t))
      [] At(r, 629, 0) -> \* return
           Ok(Leave(r), t)

\* func (root *Tree) DeleteWithKey(key Item) bool, from the return of FindGE
\* (l.191), with DeleteWithIterator (l.202-205)
DeleteWithKeyCode(r, t) ==
    CASE At(r, 191, 0) -> \* iter := root.FindGE(key); if iter.node != nil { root.DeleteWithIterator(iter)
           IF r.rn = nil THEN Ok(Done(r.op, r.it, FALSE), t)
           ELSE IF ~doAssert(~IteratorEnd(r.rn)) THEN Crash(r, t)
           ELSE Ok(Enter([r EXCEPT !.n = r.rn],
                    L("doDelete", 453, 1), L("DeleteWithKey", 194, 0)), t)
      [] At(r, 194, 0) -> \* return true
           Ok(Done(r.op, r.it, TRUE), t)

\* the step of frame r on tree t
code(r, t) ==
    CASE r.pc.fn = "Insert" -> InsertCode(r, t)
      [] r.pc.fn = "doInsert" -> doInsertCode(r, t)
      [] r.pc.fn = "maybeSetMinNode" -> maybeSetMinNodeCode(r, t)
      [] r.pc.fn = "maybeSetMaxNode" -> maybeSetMaxNodeCode(r, t)
      [] r.pc.fn = "isLeftChild" -> isLeftChildCode(r, t)
      [] r.pc.fn = "isRightChild" -> isRightChildCode(r, t)
      [] r.pc.fn = "sibling" -> siblingCode(r, t)
      [] r.pc.fn = "rotateLeft" -> rotateLeftCode(r, t)
      [] r.pc.fn = "rotateRight" -> rotateRightCode(r, t)
      [] r.pc.fn = "DeleteWithKey" -> DeleteWithKeyCode(r, t)
      [] r.pc.fn = "findGE" -> findGECode(r, t)
      [] r.pc.fn = "next" -> nextCode(r, t)
      [] r.pc.fn = "doDelete" -> doDeleteCode(r, t)
      [] r.pc.fn = "maxPredecessor" -> maxPredecessorCode(r, t)
      [] r.pc.fn = "replaceNode" -> replaceNodeCode(r, t)
      [] r.pc.fn = "deleteCase1" -> deleteCase1Code(r, t)
      [] r.pc.fn = "deleteCase5" -> deleteCase5Code(r, t)

\* the return points and branches on locals that follow an access; the
\* temporaries of an expression are dead when its line is left
RECURSIVE settle(_)
settle(s) ==
    IF s.r.pc.k <= 0 THEN settle(code(s.r, s.t))
    ELSE IF s.r.pc.k = 1
    THEN Ok([s.r EXCEPT !.a = nil, !.rn = nil, !.rb = FALSE, !.c = red, !.ci = NoItem], s.t)
    ELSE s

\* the pointers the locals of the goroutines hold
Held(th) ==
    UNION {{th[j].n, th[j].parent, th[j].gp, th[j].uncle, th[j].x, th[j].y,
            th[j].a, th[j].cn, th[j].sn, th[j].rn, th[j].pred, th[j].tp,
            th[j].tl, th[j].tr, th[j].child, th[j].d, th[j].oldn, th[j].newn,
            th[j].g, th[j].succ, th[j].nx, th[j].m, th[j].p} : j \in Threads}

\* the nodes reached from the nodes of s by parent, left and right pointers
RECURSIVE Marked(_, _)
Marked(t, s) ==
    LET more == (s \cup {t.parent[a] : a \in s} \cup {t.left[a] : a \in s}
                   \cup {t.right[a] : a \in s}) \ {nil}
    IN  IF more = s THEN s ELSE Marked(t, more)

\* the garbage collector: a node that neither the tree nor a local of a
\* goroutine leads to is collected
sweep(t, th) ==
    LET kept == Marked(t, ({t.root, t.minNode, t.maxNode} \cup Held(th)) \ {nil})
        zero(f, z) == [a \in Addr |-> IF a \in kept THEN f[a] ELSE z]
    IN  [t EXCEPT !.item = zero(t.item, NoItem), !.parent = zero(t.parent, nil),
                  !.left = zero(t.left, nil), !.right = zero(t.right, nil),
                  !.color = zero(t.color, red)]

\* no goroutine has panicked
Running == \A j \in Threads : thread[j].pc.fn # "panic"

\* mu.Lock(), in a program that uses the mutex: the goroutine waits until no
\* other holds it
CanLock(i) == lock.used => lock.holder = 0


\* the keys of the program: 1..MaxThreadKey with the mutex, 1..MaxRaceKey
\* without
ProgramKeys == IF lock.used THEN ThreadKeys ELSE 1..MaxRaceKey

\* goroutine i locks the mutex, if the program uses it, begins its call of
\* op(it) with locals f and calls entry; the call returns to ret
Started(i, op, it, f, entry, ret, t) ==
    /\ thread' = [thread EXCEPT ![i] =
                     [f EXCEPT !.op = op, !.it = it, !.pc = entry, !.stack = <<ret>>]]
    /\ Store(t)
    /\ lock' = IF lock.used THEN Mutex(TRUE, i) ELSE lock
    /\ UNCHANGED <<last, nIns, nDel, oracle, iter>>

\* goroutine i goes on as s.r and leaves the tree s.t; when its call has
\* returned, it unlocks the mutex (mu.Unlock()) and the nodes nobody holds
\* are collected
Landed(i, s) ==
    /\ thread' = [thread EXCEPT ![i] = s.r]
    /\ Store(IF s.r.pc.fn = "done" THEN sweep(s.t, [thread EXCEPT ![i] = s.r]) ELSE s.t)
    /\ lock' = IF s.r.pc.fn = "done" /\ lock.used THEN Mutex(TRUE, 0) ELSE lock
    /\ UNCHANGED <<last, nIns, nDel, oracle, iter>>

\* mu.Lock() that does not wait
ThreadInsert_noWait(i, it) ==
    /\ Running
    /\ thread[i] = Idle
    /\ it.key \in ProgramKeys
    /\ Started(i, "Insert", it, [Idle EXCEPT !.n = newNode(T, it)],
             L("doInsert", 375, 1), L("Insert", 126, 0),
             [T EXCEPT !.item[newNode(T, it)] = it, !.color[newNode(T, it)] = red])

\* mu.Lock(); tree.Insert(it) begins: n := new(node); n.item = item;
\* n.color = red; root.doInsert(n)
ThreadInsert(i, it) ==
    /\ Running
    /\ thread[i] = Idle
    /\ it.key \in ProgramKeys
    /\ CanLock(i)
    /\ Started(i, "Insert", it, [Idle EXCEPT !.n = newNode(T, it)],
             L("doInsert", 375, 1), L("Insert", 126, 0),
             [T EXCEPT !.item[newNode(T, it)] = it, !.color[newNode(T, it)] = red])

\* mu.Lock(); tree.DeleteWithKey(key) begins: root.FindGE(key), root.findGE(key)
ThreadDeleteWithKey(i, k) ==
    /\ Running
    /\ thread[i] = Idle
    /\ k \in ProgramKeys
    /\ CanLock(i)
    /\ Started(i, "DeleteWithKey", Probe(k), Idle,
             L("findGE", 417, 1), L("DeleteWithKey", 191, 0), T)

\* one access of goroutine i, by the function it is in
InsertStep(i) ==
    /\ Running
    /\ thread[i].pc.fn = "Insert"
    /\ Landed(i, settle(InsertCode(thread[i], T)))

doInsertStep(i) ==
    /\ Running
    /\ thread[i].pc.fn = "doInsert"
    /\ Landed(i, settle(doInsertCode(thread[i], T)))

maybeSetMinNodeStep(i) ==
    /\ Running
    /\ thread[i].pc.fn = "maybeSetMinNode"
    /\ Landed(i, settle(maybeSetMinNodeCode(thread[i], T)))

maybeSetMaxNodeStep(i) ==
    /\ Running
    /\ thread[i].pc.fn = "maybeSetMaxNode"
    /\ Landed(i, settle(maybeSetMaxNodeCode(thread[i], T)))

isLeftChildStep(i) ==
    /\ Running
    /\ thread[i].pc.fn = "isLeftChild"
    /\ Landed(i, settle(isLeftChildCode(thread[i], T)))

isRightChildStep(i) ==
    /\ Running
    /\ thread[i].pc.fn = "isRightChild"
    /\ Landed(i, settle(isRightChildCode(thread[i], T)))

siblingStep(i) ==
    /\ Running
    /\ thread[i].pc.fn = "sibling"
    /\ Landed(i, settle(siblingCode(thread[i], T)))

rotateLeftStep(i) ==
    /\ Running
    /\ thread[i].pc.fn = "rotateLeft"
    /\ Landed(i, settle(rotateLeftCode(thread[i], T)))

rotateRightStep(i) ==
    /\ Running
    /\ thread[i].pc.fn = "rotateRight"
    /\ Landed(i, settle(rotateRightCode(thread[i], T)))

findGEStep(i) ==
    /\ Running
    /\ thread[i].pc.fn = "findGE"
    /\ Landed(i, settle(findGECode(thread[i], T)))

nextStep(i) ==
    /\ Running
    /\ thread[i].pc.fn = "next"
    /\ Landed(i, settle(nextCode(thread[i], T)))

doDeleteStep(i) ==
    /\ Running
    /\ thread[i].pc.fn = "doDelete"
    /\ Landed(i, settle(doDeleteCode(thread[i], T)))

maxPredecessorStep(i) ==
    /\ Running
    /\ thread[i].pc.fn = "maxPredecessor"
    /\ Landed(i, settle(maxPredecessorCode(thread[i], T)))

replaceNodeStep(i) ==
    /\ Running
    /\ thread[i].pc.fn = "replaceNode"
    /\ Landed(i, settle(replaceNodeCode(thread[i], T)))

deleteCase1Step(i) ==
    /\ Running
    /\ thread[i].pc.fn = "deleteCase1"
    /\ Landed(i, settle(deleteCase1Code(thread[i], T)))

deleteCase5Step(i) ==
    /\ Running
    /\ thread[i].pc.fn = "deleteCase5"
    /\ Landed(i, settle(deleteCase5Code(thread[i], T)))

\* before the goroutines start: tree.Insert(MyItem{k, "v1"}); without the
\* mutex the tree is filled with MaxRaceFill items at most
FillInsert(k) ==
    /\ \A j \in Threads : thread[j] = Idle
    /\ k \in ProgramKeys
    /\ lock.used \/ Cardinality(Live) < MaxRaceFill
    /\ Store(Insert(T, MkItem(k, 1)).t)
    /\ UNCHANGED <<last, nIns, nDel, oracle, iter, thread, lock>>

\* before the goroutines start: tree.DeleteWithKey(MyItem{k, ""})
FillDeleteWithKey(k) ==
    /\ \A j \in Threads : thread[j] = Idle
    /\ k \in ProgramKeys
    /\ Store(DeleteWithKey(T, Probe(k)).t)
    /\ UNCHANGED <<last, nIns, nDel, oracle, iter, thread, lock>>

\* the program starts with the empty tree, with or without the mutex
InitThreads ==
    /\ root = nil /\ minNode = nil /\ maxNode = nil /\ count = 0
    /\ item = NewTree.item /\ parent = NewTree.parent /\ left = NewTree.left
    /\ right = NewTree.right /\ color = NewTree.color
    /\ last = Ret("NewTree", NoItem, nil, FALSE, NoItem, FALSE)
    /\ nIns = 0 /\ nDel = 0
    /\ oracle = <<>>
    /\ iter = NoIterator
    /\ thread = [i \in Threads |-> Idle]
    /\ lock \in {Mutex(FALSE, 0), Mutex(TRUE, 0)}

NextThreads ==
    \/ \E k \in ThreadKeys : FillInsert(k)
    \/ \E k \in ThreadKeys : FillDeleteWithKey(k)
    \/ \E i \in Threads, k \in ThreadKeys : ThreadInsert(i, MkItem(k, 1))
    \/ \E i \in Threads, k \in ThreadKeys : ThreadDeleteWithKey(i, k)
    \/ \E i \in Threads : InsertStep(i)
    \/ \E i \in Threads : doInsertStep(i)
    \/ \E i \in Threads : maybeSetMinNodeStep(i)
    \/ \E i \in Threads : maybeSetMaxNodeStep(i)
    \/ \E i \in Threads : isLeftChildStep(i)
    \/ \E i \in Threads : isRightChildStep(i)
    \/ \E i \in Threads : siblingStep(i)
    \/ \E i \in Threads : rotateLeftStep(i)
    \/ \E i \in Threads : rotateRightStep(i)
    \/ \E i \in Threads : findGEStep(i)
    \/ \E i \in Threads : nextStep(i)
    \/ \E i \in Threads : doDeleteStep(i)
    \/ \E i \in Threads : maxPredecessorStep(i)
    \/ \E i \in Threads : replaceNodeStep(i)
    \/ \E i \in Threads : deleteCase1Step(i)
    \/ \E i \in Threads : deleteCase5Step(i)

SpecThreads == InitThreads /\ [][NextThreads]_vars

\* =============================================================== claims
\* the stored items that are >= key, and those that are <= key
ItemsGE(t, k) == {it \in Contents(t) : compare(it, Probe(k)) >= 0}
ItemsLE(t, k) == {it \in Contents(t) : compare(it, Probe(k)) <= 0}

\* C1: DeleteWithKey(key) returns true if and only if an item that compares
\* equal to key is in the tree, and with no such item it returns false and
\* leaves the tree as it was.
C1_DeleteWithKeyIffPresent ==
    [][last'.op = "DeleteWithKey" =>
         LET k == last'.arg.key
         IN  /\ last'.ok <=> HasKey(T, k)
             /\ ~HasKey(T, k) => UNCHANGED treeVars]_vars

\* ---- C2
\* the keys a forward walk meets: from node n by Next until End
RECURSIVE TreeForward(_, _, _)
TreeForward(t, n, fuel) ==
    IF IteratorEnd(n) THEN <<>>
    ELSE IF fuel = 0 THEN <<-1>>
    ELSE <<IteratorItem(t, n).key>> \o TreeForward(t, IteratorNext(t, n), fuel - 1)

RECURSIVE OracleForward(_, _)
OracleForward(data, i) ==
    IF i >= Len(data) + 1 THEN <<>>
    ELSE <<data[i]>> \o OracleForward(data, i + 1)

\* the positions a backward walk meets: from node n by Prev until Begin is
\* true; a position is the key of its item, or 0 for End
RECURSIVE TreeBackward(_, _, _)
TreeBackward(t, n, fuel) ==
    <<IF IteratorEnd(n) THEN 0 ELSE IteratorItem(t, n).key>> \o
    (IF IteratorBegin(t, n) THEN <<>>
     ELSE IF fuel = 0 THEN <<-1>>
     ELSE TreeBackward(t, IteratorPrev(t, n), fuel - 1))

RECURSIVE OracleBackward(_, _)
OracleBackward(data, i) ==
    <<IF i >= Len(data) + 1 THEN 0 ELSE data[i]>> \o
    (IF i = 1 THEN <<>> ELSE OracleBackward(data, i - 1))

\* C2: after any sequence of Insert(k) and of DeleteWithKey(k) for a stored k,
\* for every probe key the forward walk from FindGE(key) and the backward walks
\* from FindGE(key) and from FindLE(key) meet the oracle's items in the
\* oracle's order and end where the oracle's walks end; and every such
\* DeleteWithKey returned true.
C2_MatchesOracle ==
    /\ \A k \in Keys :
         LET g  == FindGE(T, Probe(k))
             og == oracleFindGE(oracle, k)
             l  == FindLE(T, Probe(k))
             ol == oracleFindLE(oracle, k)
         IN  /\ TreeForward(T, g, MaxKey + 1) = OracleForward(oracle, og)
             /\ TreeBackward(T, g, MaxKey + 1) = OracleBackward(oracle, og)
             /\ TreeBackward(T, l, MaxKey + 1) = OracleBackward(oracle, ol)
    /\ last.op = "DeleteWithKey" => last.ok

\* a delete has left four or more items, and some absent probe key lies
\* between two of them
C2_Witness ==
    /\ last.op = "DeleteWithKey"
    /\ Len(oracle) >= 4
    /\ \E k \in Keys :
         /\ ~HasKey(T, k)
         /\ FindGE(T, Probe(k)) # nil
         /\ FindLE(T, Probe(k)) # nil
         /\ Len(TreeForward(T, FindGE(T, Probe(k)), MaxKey + 1)) >= 2
         /\ Len(TreeBackward(T, FindLE(T, Probe(k)), MaxKey + 1)) >= 2

\* ---- C3
\* C3: Insert(item) returns false if and only if an item that compares equal
\* is stored already, and then no field of the tree or of a node changes and
\* Get gives the item stored before; otherwise it returns true and the item
\* is stored.
C3_InsertDuplicate ==
    [][last'.op = "Insert" =>
         LET it == last'.arg
         IN  /\ ~last'.ok <=> HasKey(T, it.key)
             /\ HasKey(T, it.key) =>
                  /\ UNCHANGED treeVars
                  /\ Get(T', Probe(it.key)) = Get(T, Probe(it.key))
             /\ ~HasKey(T, it.key) => it \in Contents(T')]_vars

\* an Insert of a stored key with another value returned false
C3_Witness ==
    /\ last.op = "Insert" /\ ~last.ok
    /\ count >= 3
    /\ Get(T, Probe(last.arg.key)) # last.arg

\* ---- C4
\* C4: FindGE(key) is at the smallest stored item >= key, and is End if and
\* only if no stored item is >= key; findGE's exact is true if and only if
\* the node it returns holds an item equal to key.
C4_FindGE ==
    \A k \in Keys :
        LET r == findGE(T, Probe(k))
            n == FindGE(T, Probe(k))
            S == ItemsGE(T, k)
        IN  /\ n = r.node
            /\ IteratorEnd(n) <=> S = {}
            /\ ~IteratorEnd(n) =>
                 /\ n \in Live
                 /\ item[n] \in S
                 /\ \A x \in S : compare(item[n], x) <= 0
            /\ r.exact <=> (r.node # nil /\ compare(item[r.node], Probe(k)) = 0)

\* FindGE was called with a key that is not stored and lies between stored
\* keys, and is at an item
C4_Witness ==
    /\ last.op = "FindGE"
    /\ ~HasKey(T, last.arg.key)
    /\ last.node # nil
    /\ last.node = FindGE(T, last.arg)
    /\ ItemsLE(T, last.arg.key) # {}
    /\ count >= 4

\* ---- C5
\* C5: FindLE(key) is at the largest stored item <= key (the equal item, else
\* the predecessor of the smallest greater item, else the maximum), and is
\* End if and only if no stored item is <= key.
C5_FindLE ==
    \A k \in Keys :
        LET n == FindLE(T, Probe(k))
            S == ItemsLE(T, k)
        IN  /\ IteratorEnd(n) <=> S = {}
            /\ ~IteratorEnd(n) =>
                 /\ n \in Live
                 /\ item[n] \in S
                 /\ \A x \in S : compare(item[n], x) >= 0

\* FindLE was called with a key that is not stored and lies between stored
\* keys, and is at an item
C5_Witness ==
    /\ last.op = "FindLE"
    /\ ~HasKey(T, last.arg.key)
    /\ last.node # nil
    /\ last.node = FindLE(T, last.arg)
    /\ ItemsGE(T, last.arg.key) # {}
    /\ count >= 4

\* ---- C6
\* C6: Get(key) returns the stored item that compares equal to key, as it was
\* inserted, when there is one, and nil otherwise.
C6_Get ==
    \A k \in Keys :
        LET g == Get(T, Probe(k))
        IN  /\ HasKey(T, k) => g \in Contents(T) /\ g.key = k /\ g # Probe(k)
            /\ ~HasKey(T, k) => g = NoItem

\* Get was called with a key that is not stored and has stored neighbours
\* on both sides, and returned nil
C6_Witness ==
    /\ last.op = "Get"
    /\ last.item = NoItem
    /\ ItemsGE(T, last.arg.key) # {}
    /\ ItemsLE(T, last.arg.key) # {}

\* ---- C7
\* the nodes reached from n by left and right links
RECURSIVE NodesBelow(_, _, _)
NodesBelow(t, n, fuel) ==
    IF n = nil \/ fuel = 0 THEN {}
    ELSE NodesBelow(t, t.left[n], fuel - 1) \cup {n}
         \cup NodesBelow(t, t.right[n], fuel - 1)

Reach(t) == NodesBelow(t, t.root, MaxKey + 1)

\* the items below n, left subtree first, then n, then the right subtree
RECURSIVE InOrder(_, _, _)
InOrder(t, n, fuel) ==
    IF n = nil \/ fuel = 0 THEN <<>>
    ELSE InOrder(t, t.left[n], fuel - 1) \o <<t.item[n]>>
         \o InOrder(t, t.right[n], fuel - 1)

\* C7 (R1): after any sequence of Insert, DeleteWithKey and DeleteWithIterator
\* every node's left subtree holds strictly smaller items only and its right
\* subtree strictly greater items only, and the in-order traversal is
\* strictly increasing.
C7_Ordering ==
    /\ \A n \in Reach(T) :
         /\ \A x \in ItemsBelow(T, left[n], MaxKey + 1) : compare(x, item[n]) < 0
         /\ \A x \in ItemsBelow(T, right[n], MaxKey + 1) : compare(x, item[n]) > 0
    /\ LET io == InOrder(T, root, MaxKey + 1)
       IN  \A i \in 1..(Len(io) - 1) : compare(io[i], io[i + 1]) < 0

\* a deletion has left a tree of five or more nodes in which some node has
\* two children and a left child with a right child
C7_Witness ==
    /\ last.op \in {"DeleteWithKey", "DeleteWithIterator"} /\ ~last.panic
    /\ Len(InOrder(T, root, MaxKey + 1)) >= 5
    /\ \E n \in Reach(T) : left[n] # nil /\ right[n] # nil /\ right[left[n]] # nil

\* ---- C8
\* the numbers of black nodes on the paths from n to a nil child
RECURSIVE BlackHeights(_, _, _)
BlackHeights(t, n, fuel) ==
    IF n = nil \/ fuel = 0 THEN {0}
    ELSE {h + (IF t.color[n] = black THEN 1 ELSE 0) :
            h \in BlackHeights(t, t.left[n], fuel - 1)
                  \cup BlackHeights(t, t.right[n], fuel - 1)}

R2 == root = nil \/ color[root] = black

R3 == \A n \in Reach(T) :
          color[n] = red => getColor(T, left[n]) = black /\ getColor(T, right[n]) = black

R4 == \A n \in Reach(T) : Cardinality(BlackHeights(T, n, MaxKey + 1)) = 1

\* C8: after every Insert, DeleteWithKey or DeleteWithIterator the root is
\* black or the tree is empty (R2), no red node has a red child (R3), and all
\* paths from a node to a nil child hold the same number of black nodes (R4).
C8_RedBlack == R2 /\ R3 /\ R4

\* a deletion has left a tree with a red node that has two black children
C8_Witness ==
    /\ last.op \in {"DeleteWithKey", "DeleteWithIterator"} /\ ~last.panic
    /\ \E n \in Reach(T) :
         /\ color[n] = red
         /\ left[n] # nil /\ right[n] # nil
    /\ count >= 6

\* ---- C9
\* C9 (R6): Len() is the number of Insert calls that returned true less the
\* number of deletions done (DeleteWithKey calls that returned true and
\* DeleteWithIterator calls), is the number of nodes reached from root, and
\* is not negative.
C9_Count ==
    /\ TreeLen(T) = nIns - nDel
    /\ TreeLen(T) = Cardinality(Reach(T))
    /\ TreeLen(T) >= 0

\* items were inserted and deleted and some are left
C9_Witness ==
    /\ nIns >= 5 /\ nDel >= 2 /\ count >= 3
    /\ last.op = "DeleteWithIterator" /\ ~last.panic

\* ---- C10
\* the stored item that is smallest, and the one that is largest
IsMin(t, it) == it \in Contents(t) /\ \A x \in Contents(t) : compare(it, x) <= 0
IsMax(t, it) == it \in Contents(t) /\ \A x \in Contents(t) : compare(it, x) >= 0

\* C10 (R5): minNode and maxNode are nil if and only if the tree is empty and
\* are otherwise the leftmost and the rightmost node below root; Begin() is
\* End iff the tree is empty, Begin().Item() is the smallest stored item, and
\* End().Prev() and FindLE of a key above all items are at the largest.
C10_MinMax ==
    /\ minNode = nil <=> root = nil
    /\ maxNode = nil <=> root = nil
    /\ root = nil <=> Contents(T) = {}
    /\ IteratorEnd(Begin(T)) <=> Contents(T) = {}
    /\ root # nil =>
         /\ minNode \in Reach(T) /\ maxNode \in Reach(T)
         /\ minNode = leftmost(T, root)
         /\ maxNode = rightmost(T, root)
         /\ IsMin(T, IteratorItem(T, Begin(T)))
         /\ IsMax(T, item[IteratorPrev(T, End(T))])
         /\ IsMax(T, item[FindLE(T, Probe(MaxKey + 1))])
         /\ FindLE(T, Probe(MaxKey + 1)) = IteratorPrev(T, End(T))

\* the minimum or the maximum was deleted and other items are left
C10_Witness ==
    /\ last.op = "DeleteWithIterator" /\ ~last.panic
    /\ count >= 3
    /\ \/ \A x \in Contents(T) : compare(last.arg, x) < 0
       \/ \A x \in Contents(T) : compare(last.arg, x) > 0

\* ---- C11
\* the iterator a call of Item, Next, Prev, End or Begin was made on: a node,
\* or nil for End
Receiver(l) == IF l.arg = NoItem THEN nil
               ELSE CHOOSE a \in Addr : item[a] = l.arg

\* C11: Item() and Next() on an End iterator, Prev() on an iterator for which
\* Begin() is true (the End iterator of an empty tree included) and
\* DeleteWithIterator with an End iterator panic, return no value, and leave
\* every field of the tree and of its nodes as it was.
C11_PreconditionPanics ==
    [][LET l == last'
           violates ==
               \/ l.op \in {"Item", "Next"} /\ IteratorEnd(Receiver(l))
               \/ l.op = "Prev" /\ IteratorBegin(T, Receiver(l))
               \/ l.op = "DeleteWithIterator" /\ l.arg = NoItem
       IN  violates =>
             /\ l.panic
             /\ l.node = nil /\ l.item = NoItem /\ ~l.ok
             /\ UNCHANGED treeVars]_vars

\* Prev() was called on the iterator at the minimum of a tree of three or
\* more items, and panicked
C11_Witness ==
    /\ last.op = "Prev" /\ last.panic
    /\ count >= 3
    /\ last.arg # NoItem /\ last.arg = item[minNode]

\* ---- C12
\* the node of t that holds the stored item next above x, and next below x;
\* nil when there is none
SuccessorOf(t, x) ==
    LET S == {a \in Reach(t) : compare(t.item[a], x) > 0}
    IN  IF S = {} THEN nil
        ELSE CHOOSE a \in S : \A b \in S : compare(t.item[a], t.item[b]) <= 0

PredecessorOf(t, x) ==
    LET S == {a \in Reach(t) : compare(t.item[a], x) < 0}
    IN  IF S = {} THEN nil
        ELSE CHOOSE a \in S : \A b \in S : compare(t.item[a], t.item[b]) >= 0

\* C12: an iterator at a stored item x stays valid across every Insert and
\* every deletion of another item (x being the predecessor spliced into the
\* deleted node's place included): its node is in the tree, Item() is x,
\* Next() is at x's successor and Prev() at x's predecessor in the contents
\* the tree has now.  No step changes the item of a node that stays in the tree.
C12_IteratorStable ==
    [][/\ iter'.node # nil =>
            LET a == iter'.node
                x == iter'.item
            IN  /\ a \in Reach(T')
                /\ ItemResult(T', a) = Gave(nil, x, FALSE)
                /\ NextResult(T', a) = Gave(SuccessorOf(T', x), NoItem, FALSE)
                /\ ~IteratorBegin(T', a) =>
                     PrevResult(T', a) = Gave(PredecessorOf(T', x), NoItem, FALSE)
                /\ IteratorBegin(T', a) <=> PredecessorOf(T', x) = nil
       /\ \A a \in Reach(T) \cap Reach(T') : item'[a] = item[a]]_vars

\* a node with two children was deleted and the kept iterator is at its
\* predecessor, which was not its child and has an item below it and one above
C12_Witness ==
    /\ iter.node # nil /\ iter.pred = "apart"
    /\ last.op = "DeleteWithIterator"
    /\ SuccessorOf(T, iter.item) # nil
    /\ PredecessorOf(T, iter.item) # nil

\* ---- C13
\* after the splice of doDelete(n), n with two children and pred its
\* predecessor: pred is where n was, with n's color, parent and children, and
\* n is where pred was, with pred's left child as its only child
SpliceLinks(t, n) ==
    LET pred == maxPredecessor(t, n)
        s    == splice(t, n)
        adj  == t.parent[pred] = n
        np   == t.parent[n]
    IN  /\ pred # n /\ t.right[pred] = nil
        /\ s.parent[pred] = np
        /\ IF np = nil THEN s.root = pred
           ELSE IF t.left[np] = n THEN s.left[np] = pred /\ s.right[np] = t.right[np]
           ELSE s.right[np] = pred /\ s.left[np] = t.left[np]
        /\ s.color[pred] = t.color[n]
        /\ s.right[pred] = t.right[n] /\ s.parent[t.right[n]] = pred
        /\ IF adj THEN s.left[pred] = n /\ s.parent[n] = pred
           ELSE /\ s.left[pred] = t.left[n] /\ s.parent[t.left[n]] = pred
                /\ s.parent[n] = t.parent[pred] /\ s.right[t.parent[pred]] = n
        /\ s.right[n] = nil
        /\ s.left[n] = t.left[pred]
        /\ t.left[pred] # nil => s.parent[t.left[pred]] = n

\* the nodes of T that have two children
TwoChildren == {n \in Reach(T) : left[n] # nil /\ right[n] # nil}

\* C13, as claimed: in a deletion of a node n with two children, after the
\* splice and before the fixup, pred has n's former place, color, parent and
\* children, and n has pred's former slot with pred's former left child at
\* most, and n still carries its own item and its own color.
C13_SpliceKeepsItemAndColor ==
    \A n \in TwoChildren :
        /\ SpliceLinks(T, n)
        /\ splice(T, n).item[n] = item[n]
        /\ splice(T, n).color[n] = color[n]

\* C13, amended: in a deletion of a node n with two children, after the
\* splice and before the fixup, pred has n's former place, color, parent and
\* children and keeps its own item, and n has pred's former slot with pred's
\* former left child at most, pred's former color, and a copy of pred's item;
\* whether pred was a child of n or not.
C13_Splice ==
    \A n \in TwoChildren :
        LET pred == maxPredecessor(T, n)
        IN  /\ SpliceLinks(T, n)
            /\ splice(T, n).item[pred] = item[pred]
            /\ splice(T, n).item[n] = item[pred]
            /\ splice(T, n).color[n] = color[pred]

\* after a deletion the tree has a node with two children whose predecessor is
\* its child and has another color, and one whose predecessor is not its child
\* and has a left child
C13_Witness ==
    /\ last.op \in {"DeleteWithKey", "DeleteWithIterator"} /\ ~last.panic
    /\ \E n \in TwoChildren :
         LET pred == maxPredecessor(T, n)
         IN  parent[pred] = n /\ color[pred] # color[n]
    /\ \E n \in TwoChildren :
         LET pred == maxPredecessor(T, n)
         IN  parent[pred] # n /\ left[pred] # nil


\* ---- C14
\* every check on the paths of the calls a program may make on T: Insert of
\* any item, DeleteWithIterator of an iterator at any node
LegalChecks ==
    UNION ({InsertChecks(T, it) : it \in Items}
           \cup {doDeleteChecks(T, n) : n \in Live})

\* C14, as claimed: on legal use no doAssert fires and no nil pointer is read
\* in Insert or doDelete (the grandparent, the sibling, the far nephew of
\* case 6, the pivots), and after the splice exactly one of n.left == nil and
\* n.right == nil holds.
C14_NoFailureExactlyOne ==
    /\ \A c \in LegalChecks : c.well
    /\ \A n \in TwoChildren :
         (splice(T, n).left[n] = nil) # (splice(T, n).right[n] = nil)

\* C14, amended: on legal use no doAssert fires and no nil pointer is read in
\* Insert or doDelete: the grandparent exists when the insertion fixup reads
\* it, the sibling is not nil when deleteCase1 and deleteCase5 read its
\* children, the far nephew is red at the assertion of case 6, and at least
\* one of n.left == nil and n.right == nil holds after the splice.
C14_NoFailure ==
    /\ \A c \in LegalChecks : c.well
    /\ \A n \in TwoChildren :
         splice(T, n).left[n] = nil \/ splice(T, n).right[n] = nil

\* after a deletion the tree has a node whose deletion passes the assertion
\* of case 6, a node with two children whose predecessor is a leaf, and a
\* key whose insertion reads a grandparent
C14_Witness ==
    /\ last.op \in {"DeleteWithKey", "DeleteWithIterator"} /\ ~last.panic
    /\ \E n \in Live :
         /\ [check |-> "farNephew", well |-> TRUE] \in doDeleteChecks(T, n)
         /\ [check |-> "sibling", well |-> TRUE] \in doDeleteChecks(T, n)
    /\ \E n \in TwoChildren :
         splice(T, n).left[n] = nil /\ splice(T, n).right[n] = nil
    /\ \E it \in Items :
         [check |-> "grandparent", well |-> TRUE] \in InsertChecks(T, it)

\* ---- C15
\* the links that lead to node n: the pairs of a node and the side n is on
Owners(t, n) ==
    {<<p, "left">> : p \in {q \in Reach(t) : t.left[q] = n}}
    \cup {<<p, "right">> : p \in {q \in Reach(t) : t.right[q] = n}}

\* C15: between calls, root.parent is nil, and for every node n reached from
\* root: a left child of n has parent n, a right child of n has parent n, the
\* two children are different nodes, and n is the child of exactly one node
\* (the root of none), so that the nodes form a tree: no cycle, no node
\* reached twice.
C15_Links ==
    /\ root # nil => parent[root] = nil
    /\ \A n \in Reach(T) :
         /\ left[n] # nil => parent[left[n]] = n
         /\ right[n] # nil => parent[right[n]] = n
         /\ left[n] # nil \/ right[n] # nil => left[n] # right[n]
         /\ Cardinality(Owners(T, n)) = IF n = root THEN 0 ELSE 1
         /\ n # root => parent[n] \in Reach(T)
    /\ Len(InOrder(T, root, 2 * MaxKey + 2)) = Cardinality(Reach(T))

\* a deletion has left a tree whose root has two children, the left one
\* with two children and the right one with a left child
C15_Witness ==
    /\ last.op \in {"DeleteWithKey", "DeleteWithIterator"} /\ ~last.panic
    /\ root \in TwoChildren /\ left[root] \in TwoChildren
    /\ left[right[root]] # nil

\* ---- C16
\* C16: for every iterator it that is not End, it.Next().Prev() is at the node
\* of it (from the maximum, Next() is End and Prev() of End is the cached
\* maximum); and for every iterator it with Begin() false (End of a tree that
\* is not empty included), it.Prev().Next() is where it is.
C16_NextPrevInverse ==
    /\ \A n \in Iterators :
         ~IteratorEnd(n) =>
             /\ ~NextResult(T, n).panic
             /\ PrevResult(T, NextResult(T, n).node) = Gave(n, NoItem, FALSE)
    /\ \A n \in Iterators :
         ~IteratorBegin(T, n) =>
             /\ ~PrevResult(T, n).panic
             /\ NextResult(T, PrevResult(T, n).node) = Gave(n, NoItem, FALSE)

\* Next() was called on the iterator at the maximum of a tree of four or more
\* items and gave End, and another node's Next() is found by the climb through
\* two parents or more
C16_Witness ==
    /\ last.op = "Next" /\ ~last.panic
    /\ count >= 4
    /\ last.arg = item[maxNode] /\ last.node = nil
    /\ \E n \in Live :
         /\ right[n] = nil /\ parent[n] # nil /\ isRightChild(T, n)
         /\ NextResult(T, n).node # nil

\* ---- C17
\* the number of nodes on the longest and on the shortest path from n down to
\* a nil child
RECURSIVE Height(_, _, _)
Height(t, n, fuel) ==
    IF n = nil \/ fuel = 0 THEN 0
    ELSE LET l == Height(t, t.left[n], fuel - 1)
             r == Height(t, t.right[n], fuel - 1)
         IN  1 + IF l >= r THEN l ELSE r

RECURSIVE ShortestPath(_, _, _)
ShortestPath(t, n, fuel) ==
    IF n = nil \/ fuel = 0 THEN 0
    ELSE LET l == ShortestPath(t, t.left[n], fuel - 1)
             r == ShortestPath(t, t.right[n], fuel - 1)
         IN  1 + IF l <= r THEN l ELSE r

\* C17: after any sequence of inserts and deletes the height h of the tree is
\* at most 2 * log2(Len() + 1), which is 2^h <= (Len() + 1)^2, and the longest
\* path from root to a nil child has at most twice the nodes of the shortest.
C17_Height ==
    LET h == Height(T, root, MaxKey + 1)
    IN  /\ 2 ^ h <= (TreeLen(T) + 1) * (TreeLen(T) + 1)
        /\ h <= 2 * ShortestPath(T, root, MaxKey + 1)

\* a deletion has left a tree of height four whose shortest path has two nodes
C17_Witness ==
    /\ last.op \in {"DeleteWithKey", "DeleteWithIterator"} /\ ~last.panic
    /\ Height(T, root, MaxKey + 1) = 4
    /\ ShortestPath(T, root, MaxKey + 1) = 2

\* ---- C18
\* C18: on every reachable tree every loop of the public operations ends: the
\* descents of findGE and doInsert for every key, the climbs of next and prev
\* from every node, and the two fixup loops, for every item inserted and every
\* node deleted; and a fixup loop makes at most height + 2 rounds.
C18_Terminates ==
    LET h == Height(T, root, MaxKey + 1)
    IN  /\ \A k \in Keys :
             /\ findGERounds(T, Probe(k), root, Fuel) < NotFinished
             /\ doInsertRounds(T, MkItem(k, 1), root, Fuel) < NotFinished
        /\ \A n \in Live :
             /\ nextClimbRounds(T, n, Fuel) < NotFinished
             /\ prevClimbRounds(T, n, Fuel) < NotFinished
        /\ \A it \in Items : InsertRounds(T, it) <= h + 2
        /\ \A n \in Live : doDeleteRounds(T, n) <= h + 2

\* after a deletion the tree has a key whose insertion takes two rounds of
\* the fixup loop and descends through three nodes, a node whose deletion
\* takes two rounds of deleteCase1, and a node from which next climbs through
\* three nodes
C18_Witness ==
    /\ last.op \in {"DeleteWithKey", "DeleteWithIterator"} /\ ~last.panic
    /\ \E it \in Items :
         InsertRounds(T, it) >= 2 /\ doInsertRounds(T, it, root, Fuel) >= 3
    /\ \E n \in Live : doDeleteRounds(T, n) >= 2
    /\ \E n \in Live : nextClimbRounds(T, n, Fuel) >= 3

\* C19: a call of Len, Get, FindGE, FindLE, Tree.Begin, Tree.End or of an
\* iterator's End, Begin, Item, Next or Prev, whatever its argument and
\* whether or not it panics, leaves root, minNode, maxNode, count and every
\* node's item, color, parent, left and right as they were
ReadOnlyOps ==
    {"Len", "Get", "FindGE", "FindLE", "Tree.Begin", "Tree.End",
     "End", "Begin", "Item", "Next", "Prev"}

C19_ReadOnly ==
    [][last'.op \in ReadOnlyOps =>
          /\ root' = root /\ minNode' = minNode /\ maxNode' = maxNode
          /\ count' = count
          /\ item' = item /\ color' = color
          /\ parent' = parent /\ left' = left /\ right' = right]_vars

\* FindLE of an absent key has stepped back from the node findGE found to a
\* node that is neither the root nor the smallest, in a tree of five or more
\* items
C19_Witness ==
    /\ last.op = "FindLE" /\ last.node # nil
    /\ item[last.node].key < last.arg.key
    /\ findGE(T, last.arg).node # nil
    /\ last.node \notin {root, minNode}
    /\ count >= 5

\* ---- C20
\* R1, R5 and R6 of the data model
R1 ==
    \A n \in Reach(T) :
        /\ \A x \in ItemsBelow(T, left[n], MaxKey + 1) : compare(x, item[n]) < 0
        /\ \A x \in ItemsBelow(T, right[n], MaxKey + 1) : compare(x, item[n]) > 0

R5 ==
    /\ minNode = nil <=> root = nil
    /\ maxNode = nil <=> root = nil
    /\ root # nil => minNode = leftmost(T, root) /\ maxNode = rightmost(T, root)

R6 == count = Cardinality(Reach(T))

\* no call is running: each goroutine has yet to make its call or has
\* returned from it
BetweenCalls == \A j \in Threads : thread[j].pc.fn \in {"idle", "done"}

\* C20: when the two goroutines put their calls of Insert and DeleteWithKey
\* between Lock and Unlock of one mutex, no call panics and R1 to R6 hold
\* whenever no call is running.  (Without the mutex the steps of two calls
\* interleave and the same program reaches states between calls where an
\* invariant is broken: C20_Witness.)
C20_LockKeepsInvariants ==
    lock.used =>
        /\ Running
        /\ BetweenCalls => R1 /\ R2 /\ R3 /\ R4 /\ R5 /\ R6

\* without the mutex two calls of Insert have both returned true: count was
\* incremented twice and one node is reached from root
C20_Witness ==
    /\ ~lock.used
    /\ \A j \in Threads : thread[j].pc.fn = "done" /\ thread[j].op = "Insert" /\ thread[j].ok
    /\ count = 2
    /\ Cardinality(Reach(T)) = 1
    /\ ~R6

====
